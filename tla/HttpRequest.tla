---------------------------- MODULE HttpRequest ----------------------------
(***************************************************************************)
(* How server_recv finds the payload of a request that arrived whole in    *)
(* one segment: get_payload_len and get_value (tcp.c) scan the segment in  *)
(* place with strtok, each with the same hidden pointer, and strtok writes *)
(* a NUL over every delimiter that ends a token.  The payload is then cut  *)
(* from the end of that same segment.                                      *)
(*                                                                         *)
(* Memory is a sequence of symbols.  "CL" stands for the text              *)
(* "Content-Length", "x" for a byte that matters to nobody, a numeral for  *)
(* all its digits; the others are single characters.  The segment is not   *)
(* NUL-terminated, and what lies behind it is not modelled: a call of      *)
(* strtok that finds no end in it is the step Stray, whose outcome is any. *)
(***************************************************************************)
EXTENDS Naturals, Sequences, FiniteSetsExt, SequencesExt

CONSTANTS Symbols,      \* what memory holds
          Headers,      \* header lines a controller may send, without CR LF
          Payloads,     \* bodies
          Numerals,     \* the text of a number, as one symbol
          MaxHeaders    \* bound on the number of other header lines

NUL == "NUL"
CRLF == <<"CR", "LF">>
EndOfLine == {"CR", "LF"}

\* What a line starts with that get_payload_len looks for.
LengthName == <<"CL", ":", " ">>

\* No line is empty or ends early, a second Content-Length is not sent, and a
\* uint16_t holds the one there is.
RequestAssumption ==
  /\ MaxHeaders \in Nat
  /\ {"x", "CL", ":", " ", NUL} \cup EndOfLine \subseteq Symbols
  /\ \A h \in Headers :
       /\ h \in Seq(Symbols) /\ h # <<>> /\ ~IsPrefix(LengthName, h)
       /\ \A i \in 1..Len(h) : h[i] \notin EndOfLine \cup {NUL}
  /\ \A p \in Payloads : p \in Seq(Symbols) /\ Len(p) \in DOMAIN Numerals
  /\ DOMAIN Numerals \subseteq 0..(2^16 - 1)
  /\ \A n \in DOMAIN Numerals :
       /\ Numerals[n] \in Symbols \ (EndOfLine \cup {NUL, ":", " "})
       /\ \A m \in DOMAIN Numerals : Numerals[m] = Numerals[n] => m = n
ASSUME RequestAssumption

VARIABLES
  scan,         \* which call comes next
  mem,          \* the segment, p->payload
  save,         \* strtok's pointer: an index, or 0 for NULL
  sep,          \* the current line: an index, or 0 for NULL
  o,            \* the latest token of get_value
  payload_len,
  payload,      \* what handle_request is called with
  sent,         \* the body the controller sent
  measured      \* did it send a Content-Length with it?

request == <<scan, mem, save, sep, o, payload_len, payload, sent, measured>>
----------------------------------------------------------------------------
ContentLength(p) == <<"CL", ":", " ", Numerals[Len(p)]>>

\* The request line and headers in any order, with a Content-Length and without.
HeaderLines(before, after, p) ==
  <<<<"x", " ", "x">>>> \o before \o <<ContentLength(p)>> \o after
Unmeasured(before) == <<<<"x", " ", "x">>>> \o before

Text(lines, p) ==
  FlattenSeq([i \in 1..Len(lines) |-> lines[i] \o CRLF]) \o CRLF \o p

Lines == UNION {[1..n -> Headers] : n \in 0..MaxHeaders}

ScanInit ==
  /\ \E before, after \in Lines, p \in Payloads :
       /\ Len(before) + Len(after) <= MaxHeaders
       /\ \/ mem = Text(HeaderLines(before, after, p), p) /\ measured = TRUE
          \/ mem = Text(Unmeasured(before), p) /\ measured = FALSE
       /\ sent = p
  /\ scan = "first" /\ save = 0 /\ sep = 0 /\ o = 0
  /\ payload_len = 0 /\ payload = <<>>
----------------------------------------------------------------------------
(***************************************************************************)
(* strtok(from, delims), where from is what the caller passes or else the  *)
(* saved pointer: the token (0 if there is none), the memory with the NUL  *)
(* that ends it, and the pointer saved.                                    *)
(***************************************************************************)
strtok(from, delims) ==
  LET skipped == {i \in from..Len(mem) : mem[i] \notin delims}
      start == Min(skipped)
      ends == {i \in start..Len(mem) : mem[i] \in delims \cup {NUL}}
      end == Min(ends)
  IN IF from = 0 \/ skipped = {} \/ mem[start] = NUL
     THEN [token |-> 0, mem |-> mem, save |-> 0]
     ELSE IF ends = {} \/ mem[end] = NUL
     THEN [token |-> start, mem |-> mem, save |-> 0]
     ELSE [token |-> start, mem |-> [mem EXCEPT ![end] = NUL],
           save |-> end + 1]

\* Does it find in the segment what ends it, be it a delimiter or a NUL?
Inside(from, delims) ==
  from # 0 =>
    {end \in from..Len(mem) :
       /\ mem[end] \in delims \cup {NUL}
       /\ \E start \in from..end : mem[start] \notin delims} # {}

\* The number a string starts with, after blanks.
strtol(str) ==
  LET digits == {i \in str..Len(mem) : \A j \in str..i : mem[j] = " "}
      first == IF digits = {} THEN str ELSE Max(digits) + 1
  IN IF \E n \in DOMAIN Numerals : Numerals[n] = mem[first]
     THEN CHOOSE n \in DOMAIN Numerals : Numerals[n] = mem[first] ELSE 0

Takes(t) == mem' = t.mem /\ save' = t.save

\* The strtok calls of get_payload_len: the first, and the one of its loop.
FirstLine ==
  /\ scan = "first" /\ Inside(1, EndOfLine)
  /\ LET t == strtok(1, EndOfLine)
     IN Takes(t) /\ sep' = t.token
  /\ scan' = "compare"
  /\ UNCHANGED <<o, payload_len, payload, sent, measured>>

\* The loop of lines goes on where strtok stopped, get_value's call or not.
LinesFrom_restarted == sep
LinesFrom == save

NextLine ==
  /\ scan = "next" /\ Inside(LinesFrom, EndOfLine)
  /\ LET t == strtok(LinesFrom, EndOfLine)
     IN Takes(t) /\ sep' = t.token
  /\ scan' = "compare"
  /\ UNCHANGED <<o, payload_len, payload, sent, measured>>

\* while (sep != NULL), and the comparison with "Content-Length: ".
IsContentLength ==
  sep + 2 <= Len(mem) /\ SubSeq(mem, sep, sep + 2) = LengthName

Compare ==
  /\ scan = "compare" /\ sep # 0
  /\ scan' = IF IsContentLength THEN "value" ELSE "next"
  /\ UNCHANGED <<mem, save, sep, o, payload_len, payload, sent, measured>>

\* get_value: its first strtok leaves the pointer of the lines for good.
GetValue ==
  /\ scan = "value" /\ Inside(sep, {":", " "})
  /\ LET t == strtok(sep, {":", " "})
     IN Takes(t) /\ o' = t.token
  /\ scan' = "rest"
  /\ UNCHANGED <<sep, payload_len, payload, sent, measured>>

\* Where the scan of lines stands after get_value: nowhere.
AfterValue_reentrant(t) == sep + 5
AfterValue(t) == t.save

\* Its loop: o is the last token before NULL; then strtol.
GetRest ==
  /\ scan = "rest" /\ Inside(save, EndOfLine)
  /\ LET t == strtok(save, EndOfLine)
     IN /\ mem' = t.mem
        /\ IF t.token # 0
           THEN o' = t.token /\ save' = t.save /\ UNCHANGED <<scan, payload_len>>
           ELSE /\ o' = o /\ save' = AfterValue(t)
                /\ scan' = "next" /\ payload_len' = strtol(o)
  /\ UNCHANGED <<sep, payload, sent, measured>>

(***************************************************************************)
(* strtok leaves the segment and goes on in the memory behind it, until a  *)
(* NUL there.  What it meets may look like a Content-Length, left there by *)
(* an earlier request, or not.                                             *)
(***************************************************************************)
Stray ==
  /\ \/ scan = "first" /\ ~Inside(1, EndOfLine)
     \/ scan = "next" /\ ~Inside(LinesFrom, EndOfLine)
     \/ scan = "value" /\ ~Inside(sep, {":", " "})
     \/ scan = "rest" /\ ~Inside(save, EndOfLine)
  /\ payload_len' \in {payload_len} \cup DOMAIN Numerals
  /\ save' = Len(mem) + 1 /\ sep' = 0 /\ scan' = "compare"
  /\ UNCHANGED <<mem, o, payload, sent, measured>>

\* server_recv: the payload is the end of the segment.
Start(length) == Len(mem) - length

Cut ==
  /\ scan = "compare" /\ sep = 0 /\ payload_len <= Len(mem)
  /\ LET header_len == Start(payload_len)
     IN payload' = SubSeq(mem, header_len + 1, header_len + payload_len)
  /\ scan' = "done"
  /\ UNCHANGED <<mem, save, sep, o, payload_len, sent, measured>>

\* header_len, a uint16_t, wraps, and so many bytes of elsewhere are copied.
CutElsewhere ==
  /\ scan = "compare" /\ sep = 0 /\ payload_len > Len(mem)
  /\ payload' = [i \in 1..payload_len |-> "x"]
  /\ scan' = "done"
  /\ UNCHANGED <<mem, save, sep, o, payload_len, sent, measured>>

ScanNext == \/ FirstLine \/ NextLine \/ Compare \/ GetValue \/ GetRest
            \/ Stray \/ Cut \/ CutElsewhere

ScanSpec == ScanInit /\ [][ScanNext]_request /\ WF_request(ScanNext)
----------------------------------------------------------------------------
(***************************************************************************)
(* handle_request gets the body that was sent with a Content-Length, byte  *)
(* for byte, wherever that stands among the headers and whatever bytes the *)
(* body has (line ends, colons or a line like a header among them).  It    *)
(* depends on get_value losing the place of the scan: the body is never    *)
(* scanned, so no NUL is written into it (tcp.c:26-47, 115-122).           *)
(***************************************************************************)
PayloadIsBody == scan = "done" /\ measured => payload = sent

(***************************************************************************)
(* With a Content-Length the pointer that strtok keeps stays within the    *)
(* headers at every step, so the scan never runs past the segment, which   *)
(* has no NUL at its end (tcp.c:38-44).  Nothing is claimed of a request   *)
(* without one: its scan goes through the body and leaves the segment.     *)
(***************************************************************************)
ScanStaysInHeaders == measured => save <= Len(mem) - Len(sent)
=============================================================================
