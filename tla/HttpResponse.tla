----------------------------- MODULE HttpResponse -----------------------------
(***************************************************************************)
(* webserver_tac, http/http_response.cpp: what answers a request.          *)
(*                                                                         *)
(* A response is code_, isKeepAlive_, the size in mmFileStat_ and whether  *)
(* mmFile_ is mapped.  What stat finds and what comes of open and mmap are *)
(* parameters: the files may change in between.  Of the text there is a    *)
(* word for the status line, one for Connection and its company, one for   *)
(* Content-length and one for ErrorContent's page; a file is counted in    *)
(* units.                                                                  *)
(***************************************************************************)
EXTENDS Buffer

CONSTANT FileUnits    \* bound on the size of a file

ASSUME FileUnitsIsNat == FileUnits \in Nat

(* What stat may find.  A directory has a size of its own. *)
Missing == [kind |-> "missing", size |-> 0]
Directory == [kind |-> "dir", size |-> FileUnits + 1]
Unreadable == [kind |-> "unreadable", size |-> 1]      \* not by others
FileStats == [kind : {"file"}, size : 0..FileUnits]
Stats == FileStats \cup {Missing, Directory, Unreadable}

Codes == {200, 400, 403, 404}

Response(code, keep, size, mapped) ==
  [code |-> code, keep |-> keep, size |-> size, mapped |-> mapped]

(* The constructor, and Init as far as MakeResponse does not overwrite it. *)
NewResponse == Response(200, FALSE, 0, FALSE)
-----------------------------------------------------------------------------
(* MakeResponse's choice of code_; a request that could not be parsed has  *)
(* the path of the directory itself.                                       *)
CodeFor(code, found) ==
  IF found \in {Missing, Directory} THEN 404
  ELSE IF found = Unreadable THEN 403
  ELSE code

(* ErrorHtml_: mmFileStat_ is of the error page if there is one, and of    *)
(* what was asked for otherwise.                                           *)
ErrorHtml_(code, first, second) ==
  IF code \in {400, 403, 404} /\ second # Missing THEN second.size ELSE first.size

AddStateLine_(b, code) == Append_(b, <<<<"status", code>>>>)
AddHeader_(b, keep) == Append_(b, <<<<"keep-alive", keep>>>>)

ErrorContent(b) == Append_(Append_(b, <<<<"length", 1>>>>), <<<<"page", 1>>>>)

(* What may come of open and mmap, whose result is read before it is       *)
(* looked at.  "faults": mmap failed, of an empty file for certain, and     *)
(* reading MAP_FAILED kills the process.  "ones": the file begins with     *)
(* four bytes 0xFF and is taken for a failure, but stays mapped and open.  *)
Outcomes == {"unopened", "faults", "ones", "mapped"}
MayBe(outcome, size) == size > 0 \/ outcome \in {"unopened", "faults"}

AddContent_(b, mapped, size) ==
  IF mapped THEN Append_(b, <<<<"length", size>>>>) ELSE ErrorContent(b)

MakeResponse(b, r) ==
  AddContent_(AddHeader_(AddStateLine_(b, r.code), r.keep), r.mapped, r.size)
=============================================================================
