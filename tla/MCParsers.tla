----------------------------- MODULE MCParsers -----------------------------
(***************************************************************************)
(* The two parsers of a request for TLC, one of them per behaviour: the    *)
(* TLV codec, and the search for the payload of an HTTP request, whose     *)
(* other headers and bodies are short.                                     *)
(***************************************************************************)
EXTENDS MCTlv, HttpRequest

CONSTANT MaxPayload

Bytes == {"x", "CR", "LF", ":", "CL", "NUL"}

Bodies == UNION {[1..n -> Bytes] : n \in 0..MaxPayload}
            \cup {<<"CL", ":", " ", "2", "CR", "LF">>}

Digits == [n \in 0..9 |-> ToString(n)]

AllSymbols == Bytes \cup {" ", "7"} \cup {Digits[n] : n \in 0..9}

OtherHeaders == {<<"x", ":", " ", "x">>, <<"CL", "x", ":", " ", "7">>}

NoRequest == /\ scan = "none" /\ mem = <<>> /\ save = 0 /\ sep = 0 /\ o = 0
             /\ payload_len = 0 /\ payload = <<>> /\ sent = <<>>
             /\ measured = FALSE

NoMessage == /\ encoder = "none" /\ message = <<>> /\ value = <<>> /\ left = 0
             /\ item = 1 /\ out = <<>> /\ data = 1 /\ pc = "none" /\ buf = <<>>
             /\ dlength = 0

ParsersInit == (Init /\ NoRequest) \/ (ScanInit /\ NoMessage)
ParsersNext == (Next /\ UNCHANGED request) \/ (ScanNext /\ UNCHANGED vars)
ParsersSpec == /\ ParsersInit /\ [][ParsersNext]_<<vars, request>>
               /\ WF_<<vars, request>>(ParsersNext)
----------------------------------------------------------------------------
\* HttpRequest: the scan of every request ends (tcp.c:36-46).
ScanEnds == scan # "none" => <>(scan = "done")
============================================================================
