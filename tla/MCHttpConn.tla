------------------------------ MODULE MCHttpConn -------------------------------
(* HttpConn for TLC: five paths and what clients ask for. *)
EXTENDS HttpConn

MCPaths == {"/page", "/empty", "/secret", "/dir", "/missing"}
File(readable, dir, size) == [readable |-> readable, dir |-> dir, size |-> size]
MCFiles ==
    [p \in MCPaths \ {"/missing"} |->
        CASE p = "/page" -> File(TRUE, FALSE, 4)
          [] p = "/empty" -> File(TRUE, FALSE, 0)
          [] p = "/secret" -> File(FALSE, FALSE, 2)
          [] p = "/dir" -> File(TRUE, TRUE, 1)]
MCLengthOf == [h \in {"Content-Length: 0", "Content-Length: 2"} |->
                  IF h = "Content-Length: 0" THEN 0 ELSE 2]

Eol == <<"CR", "LF">>
Get(path, host) == <<"GET", "sp">> \o host \o <<path, "sp", "HTTP/1.1">> \o Eol
Keep == <<KeepAlive>> \o Eol
Two == <<"Content-Length: 2">> \o Eol
Zero == <<"Content-Length: 0">> \o Eol
Plain(path) == Get(path, <<>>) \o Keep \o Eol

MCScripts == {
    \* two requests on one connection
    <<Plain("/page"), Get("/secret", <<"http://">>) \o Eol>>,
    <<Plain("/missing"), Plain("/dir")>>,
    \* a body, also one that looks like a line, and one that fills the buffer
    <<Get("/empty", <<>>) \o Two \o Keep \o Eol \o <<"x", "x">>, Get("/page", <<>>) \o Eol>>,
    <<Get("/page", <<>>) \o Two \o Zero \o Two \o Eol \o <<"CR", "LF">>>>,
    <<Get("/page", <<>>) \o Keep \o Keep \o Keep \o Keep \o Two \o Eol \o <<"x", "x">>>>,
    \* no request, and lines that do not end as they should
    <<<<"POST", "sp", "/page", "sp", "HTTP/1.1">> \o Eol \o Eol>>,
    <<<<"GET", "sp", "/page">> \o Eol>>,
    <<Get("/page", <<>>) \o <<"x", "LF">> \o Eol>>,
    <<<<"GET", "CR", "sp", "/page", "sp", "HTTP/1.1">> \o Eol \o Eol>>}
===============================================================================
