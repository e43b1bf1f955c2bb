------------------------------ MODULE HttpRequest ------------------------------
(***************************************************************************)
(* webserver_tac, http/http_request.cpp: the parser of requests, one       *)
(* operator for each function that parse calls on a line.                  *)
(*                                                                         *)
(* Bytes are taken in words: a method with its space, a path with " HTTP/" *)
(* behind it, a version, a header's name, ":", its value, a field of a     *)
(* form; CR and LF are words of their own, so a line may be cut anywhere   *)
(* between words.  The characters of a word are left out.                  *)
(***************************************************************************)
EXTENDS Naturals, Sequences

CONSTANTS
  Methods,       \* words
  Paths          \* words

ASSUME MethodsAndPaths == Methods \cap Paths = {} /\ "CR" \notin Methods \cup Paths

DEFAULT_HTML == {"/index", "/register", "/login", "/welcome", "/video", "/picture"}
DEFAULT_HTML_TAG == {"/register.html", "/login.html"}
Names == {"Connection", "Content-Type"}    \* the headers anybody looks at

States == {"REQUEST_LINE", "HEADERS", "BODY", "FINISH"}

Request(state, method, path, version, header) ==
  [state |-> state, method |-> method, path |-> path, version |-> version,
   header |-> header]

(* HttpRequest::Init *)
NewRequest == Request("REQUEST_LINE", "", "", "", [n \in Names |-> ""])

(* What a submatch holds.  Words stuck together equal nothing that the code *)
(* compares a submatch with.                                               *)
Word(s) == IF s = <<>> THEN "" ELSE IF Len(s) = 1 THEN s[1] ELSE "glued"

(* regex_match of a request line, three parts without spaces: what is      *)
(* before the method or behind the version is taken with it.               *)
RequestLineAt(line) ==
  {i \in 1..(Len(line) - 1) : line[i] \in Methods /\ line[i + 1] \in Paths}

ParsePath_(path) ==
  IF path = "/" THEN "/index.html"
  ELSE IF path \in DEFAULT_HTML THEN path \o ".html"
  ELSE path

(* Without a match the state stays REQUEST_LINE, and parse returns false.  *)
ParseRequestLine_(r, line) ==
  IF RequestLineAt(line) = {} THEN r
  ELSE LET i == CHOOSE k \in RequestLineAt(line) : TRUE
       IN  Request("HEADERS", Word(SubSeq(line, 1, i)), ParsePath_(line[i + 1]),
                   Word(SubSeq(line, i + 2, Len(line))), r.header)

(* regex_match of a header: anything up to the first colon, and behind it  *)
(* neither CR nor LF.                                                      *)
HeaderAt(line) ==
  {i \in 1..Len(line) : /\ line[i] = ":"
                        /\ \A k \in 1..(i - 1) : line[k] # ":"
                        /\ \A k \in i..Len(line) : line[k] \notin {"CR", "LF"}}

(* Any line that is no header ends them, an empty one or another. *)
ParseHeader_(r, line) ==
  IF HeaderAt(line) = {}
  THEN [r EXCEPT !.state = IF r.method = "POST" THEN "BODY" ELSE "FINISH"]
  ELSE LET i == CHOOSE k \in HeaderAt(line) : TRUE
           name == Word(SubSeq(line, 1, i - 1))
       IN  IF name \in Names
           THEN [r EXCEPT !.header[name] = Word(SubSeq(line, i + 1, Len(line)))]
           ELSE r

(* ParsePost_: verified is what the database says, see SqlConnPool; without *)
(* a name and a password UserVerify does not ask.                          *)
PathAfterPost(r, line, verified) ==
  IF r.header["Content-Type"] # "urlencoded" \/ r.path \notin DEFAULT_HTML_TAG
  THEN r.path
  ELSE IF verified /\ \A f \in {"username", "password"} :
                         \E k \in DOMAIN line : line[k] = f
  THEN "/welcome.html"
  ELSE "/error.html"

ParseBody_(r, line, verified) ==
  [r EXCEPT !.state = "FINISH",
            !.path = IF r.method = "POST" THEN PathAfterPost(r, line, verified) ELSE @]

ParseLine(r, line, verified) ==
  CASE r.state = "REQUEST_LINE" -> ParseRequestLine_(r, line)
    [] r.state = "HEADERS" -> ParseHeader_(r, line)
    [] r.state = "BODY" -> ParseBody_(r, line, verified)

IsKeepAlive(r) == r.header["Connection"] = "keep-alive" /\ r.version = "1.1"
=============================================================================
