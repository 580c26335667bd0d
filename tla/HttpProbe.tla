----------------------------- MODULE HttpProbe -----------------------------
(***************************************************************************)
(* The client's poll of /diagnostics (HttpProbe, client/src/net/           *)
(* stream_connection.cpp): one request per connection, the reply ends with *)
(* the connection.                                                         *)
(*                                                                         *)
(* A reply (external) is a sequence of parts, cut anywhere by recv: its    *)
(* status, the end of its header, and the parts of its body.  The server   *)
(* may close or fall silent at any point.                                  *)
(***************************************************************************)
EXTENDS Integers, Sequences

CONSTANTS
    Replies,       \* what a server may answer
    RequestSize,   \* size of kProbeRequest
    InputLimit,    \* 65536, in parts
    ProbeTimeout,  \* 2 s, in ticks
    ProbePause,    \* 2 s, in ticks
    MaxProbes      \* bound: connections

\* What the server sends (external): a status, the header, and an object.
IsReply(r) ==
    /\ r \in Seq({"200", "503", "end", "begin", "x", "close"}) /\ Len(r) >= 4
    /\ r[1] \in {"200", "503"} /\ r[2] = "end" /\ r[3] = "begin" /\ r[Len(r)] = "close"
    /\ \A i \in 4..Len(r) - 1 : r[i] = "x"

ASSUME ProbeAssumption ==
    /\ \A r \in Replies : IsReply(r)
    /\ {RequestSize, InputLimit, ProbeTimeout, ProbePause, MaxProbes} \subseteq Nat \ {0}

VARIABLES
    psocket,    \* socket_ and connecting_: "none", "connecting", "open"
    sent,       \* sent_; writing_ until it is RequestSize
    input,      \* input_: the parts, each with the connection it came from
    value,      \* the connections that value_ was made from
    pdeadline,  \* ticks until deadline_
    pretry,     \* ticks until retry_
    left,       \* connections this behaviour still makes, which also names them (bound)
    reply,      \* the reply on this connection and how much of it was received (external)
    answered    \* the last connection that brought a whole reply, as a set (history)

pvars == <<psocket, sent, input, value, pdeadline, pretry, left, reply, answered>>

ProbeInit ==
    /\ psocket = "none" /\ sent = 0 /\ input = <<>> /\ value = {}
    /\ pdeadline = 0 /\ pretry = 0 /\ left \in 0..MaxProbes
    /\ reply = [parts |-> <<>>, received |-> 0] /\ answered = {}

----------------------------------------------------------------------------
\* json::Parse finds an object in it, and nothing after it.
IsObject(body) ==
    /\ Len(body) >= 2 /\ body[1] = "begin" /\ body[Len(body)] = "close"
    /\ \A i \in 2..Len(body) - 1 : body[i] = "x"

Parts(text) == [i \in DOMAIN text |-> text[i].part]

\* The place of the first empty line, zero without one.
Split(text) ==
    LET empty == {i \in DOMAIN text : text[i].part = "end"} IN
    IF empty = {} THEN 0 ELSE CHOOSE i \in empty : \A j \in empty : i <= j

Accepted(text) ==
    /\ Split(text) # 0 /\ text[1].part = "200"
    /\ IsObject(SubSeq(Parts(text), Split(text) + 1, Len(text)))

\* Finish: the value stays unless a whole reply is accepted.
Finish(success, text) ==
    /\ value' = IF success /\ Accepted(text)
                THEN {text[i].of : i \in {1} \cup (Split(text) + 1)..Len(text)} ELSE value
    /\ psocket' = "none" /\ pretry' = ProbePause

----------------------------------------------------------------------------
(***************************************************************************)
(* Tick.                                                                   *)
(***************************************************************************)
ProbeExpires ==
    /\ psocket # "none" /\ pdeadline = 0
    /\ Finish(FALSE, input)
    /\ UNCHANGED <<sent, input, pdeadline, left, reply, answered>>

ProbeWaits ==
    /\ IF psocket # "none" THEN pdeadline > 0 ELSE pretry > 0 \/ left = 0
    /\ UNCHANGED pvars

\* Mutant: the bytes of the reply before are kept.
NewInputKept == input

NewInput == <<>>

\* Connect succeeds at once, goes on in the background, or fails.
ProbeConnects(result) ==
    /\ psocket = "none" /\ pretry = 0 /\ left > 0
    /\ left' = left - 1
    /\ \/ /\ result = "none"
          /\ Finish(FALSE, input)
          /\ UNCHANGED <<sent, input, pdeadline, reply>>
       \/ /\ result \in {"connecting", "open"}
          /\ psocket' = result
          /\ sent' = 0 /\ input' = NewInput /\ pdeadline' = ProbeTimeout
          /\ \E r \in Replies : reply' = [parts |-> r, received |-> 0]
          /\ UNCHANGED <<value, pretry>>
    /\ UNCHANGED answered

ProbeTick == ProbeExpires \/ ProbeWaits \/ \E r \in {"none", "connecting", "open"} : ProbeConnects(r)

----------------------------------------------------------------------------
(***************************************************************************)
(* Handle.                                                                 *)
(***************************************************************************)

\* poll reports nothing, or send or the first recv would block.
ProbeIdle == UNCHANGED pvars

\* POLLERR, a failed connection, or an error of send or recv.
ProbeFails ==
    /\ psocket # "none"
    /\ Finish(FALSE, input)
    /\ UNCHANGED <<sent, input, pdeadline, left, reply, answered>>

\* Connected, and n bytes of the request are sent.
ProbeSends(n) ==
    /\ psocket # "none" /\ n \in 0..RequestSize - sent
    /\ psocket = "connecting" \/ n > 0
    /\ psocket' = "open" /\ sent' = sent + n
    /\ UNCHANGED <<input, value, pdeadline, pretry, left, reply, answered>>

\* The recv calls of one Handle: n parts, then the end of the connection or no
\* more for now.
ProbeReceives(n, ended) ==
    /\ psocket = "open" /\ sent = RequestSize
    /\ n \in 0..Len(reply.parts) - reply.received /\ (n > 0 \/ ended)
    /\ LET text  == input \o [i \in 1..n |-> [part |-> reply.parts[reply.received + i], of |-> left]]
           whole == reply.received + n = Len(reply.parts)
       IN  /\ input' = text
           /\ reply' = [reply EXCEPT !.received = @ + n]
           /\ IF ended \/ Len(text) > InputLimit
                THEN Finish(Len(text) <= InputLimit, text)
                ELSE UNCHANGED <<psocket, value, pretry>>
           /\ answered' = IF /\ ended /\ whole /\ reply.parts[1] = "200"
                             /\ Len(reply.parts) <= InputLimit
                          THEN {left} ELSE answered
    /\ UNCHANGED <<sent, pdeadline, left>>

ProbeHandle ==
    \/ ProbeIdle \/ ProbeFails
    \/ \E n \in 0..RequestSize : ProbeSends(n)
    \/ \E n \in 0..InputLimit + 1, ended \in BOOLEAN : ProbeReceives(n, ended)

ProbeTime ==
    /\ pdeadline' = IF pdeadline = 0 THEN 0 ELSE pdeadline - 1
    /\ pretry' = IF pretry = 0 THEN 0 ELSE pretry - 1
    /\ UNCHANGED <<psocket, sent, input, value, left, reply, answered>>

----------------------------------------------------------------------------
\* The value on the screen is the body of the last reply that arrived whole
\* with status 200, and every part of it is of that one connection: attempts
\* that failed, were cut short or grew too large neither change it nor leave
\* bytes behind for the next one (Tick's input_.clear, Finish).
ProbeValueIsLastReply == value = answered
=============================================================================
