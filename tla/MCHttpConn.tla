------------------------------ MODULE MCHttpConn ------------------------------
(* HttpConn for TLC: a short visit, and one with a keep-alive GET and a    *)
(* login behind it, a login and a GET behind it, or no request at all.     *)
EXTENDS HttpConn

Get(path, keep) == [method |-> "GET", path |-> path, keep |-> keep, body |-> <<>>]
Login(keep) ==
  [method |-> "POST", path |-> "/login", keep |-> keep, body |-> <<"username", "password">>]

MCStreams ==
  <<{<<Get("/", FALSE)>>},
    {<<Get("/", TRUE), Login(FALSE)>>, <<Login(TRUE), Get("/picture", FALSE)>>,
     <<Get("no path", FALSE)>>}>>
=============================================================================
