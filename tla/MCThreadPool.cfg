\* Two workers, room for m_max_requests + 1 = 2 waiting requests, four calls of
\* append(): enough for a refusal, for a full list and for every worker to be
\* interrupted.  The pool really stops once it is destroyed and its workers have left.
CONSTANTS
    Workers = {w1, w2}
    Main = main
    NoThread = nobody
    MaxRequests = 1
    MaxAppends = 4
SPECIFICATION FairSpec
INVARIANTS TypeOK NoLostWakeup NoDoubleService
PROPERTIES ServedUnlessStopped ImplementsQueue
CHECK_DEADLOCK FALSE
