-------------------------- MODULE ConversationsProofs --------------------------
(***************************************************************************)
(* Theorems about Conversations, for any number of streams and of calls.   *)
(*                                                                         *)
(* Two streams may overlap, so a stream's copy of the row says nothing.    *)
(* What holds up is that a call is in one pair of hands: it is the pending *)
(* one, or one stream past the claim has it, and it is handed over in one  *)
(* commit.  That no call is lost takes the absence of overlaps, and then   *)
(* the copy of the only stream is the row.                                 *)
(***************************************************************************)
EXTENDS Conversations, TLAPS

(* Streams that have a call in hand; one at "claim" only hopes for it. *)
Holding == {"offer", "run", "answer", "settle"}

Holds(st, c) == st.call = c /\ st.at \in Holding

Fresh(c) == ran[c] = 0 /\ c \notin rejected /\ answered[c] = 0

(* One pair of hands. *)
PendingOK ==
  conv.pending \in Calls =>
    /\ conv.pending \in offered
    /\ Fresh(conv.pending)
    /\ \A s \in Streams : ~Holds(streams[s], conv.pending)

StreamOK(st) ==
  st.at \in Holding =>
    /\ st.call \in offered
    /\ st.at \in {"offer", "run"} => Fresh(st.call)
    /\ st.at = "answer" => answered[st.call] = 0

StreamsOK ==
  /\ \A s \in Streams : StreamOK(streams[s])
  /\ \A s, t \in Streams : \A c \in Calls :
       Holds(streams[s], c) /\ Holds(streams[t], c) => s = t

CallsOK ==
  \A c \in Calls :
    /\ c \notin offered => Fresh(c)
    /\ answered[c] <= 1
    /\ ran[c] <= 1
    /\ ran[c] = 1 => c \notin rejected

(* Without overlaps the only stream knows the row. *)
Solo == ~overlapped /\ ~cut /\ conv.exists

Idle(row) == row.status = "idle" /\ row.pending = NoCall

Pending(row, p) == row.status = "awaiting_confirmation" /\ row.pending = p

SoloOK(st) ==
  /\ st.at = "send" => st.seen = conv
  /\ st.at \in {"open", "turn", "offer"} => Idle(conv)
  /\ st.at \in {"turn", "offer"} => Idle(st.seen)
  /\ st.at \in {"claim", "run", "answer", "settle"} => Pending(st.seen, st.call)
  /\ st.at = "claim" => conv.pending = st.call
  /\ st.at \in {"run", "answer", "settle"} => conv.pending = Claimed
  /\ st.at = "settle" => answered[st.call] = 1

AloneOK ==
  Solo =>
    /\ \A s \in Streams : SoloOK(streams[s])
    /\ \A s, t \in Streams : streams[s].at # "none" /\ streams[t].at # "none" => s = t
    /\ \A c \in offered \ failed :
         answered[c] = 0 => \/ conv.pending = c
                            \/ \E s \in Streams : Holds(streams[s], c)

(* A stream that works on a call has one. *)
CallNamed(st) ==
  st.at \in {"offer", "claim", "run", "answer", "settle"} => st.call \in Calls

ConvInv ==
  /\ ConversationTypeOK
  /\ \A s \in Streams : CallNamed(streams[s])
  /\ PendingOK
  /\ StreamsOK
  /\ CallsOK
  /\ AloneOK

--------------------------------------------------------------------------------
(* Types. *)

LEMMA NoStreamType ==
  /\ NoStream \in Stream /\ NoStream.at = "none" /\ NoStream.call = NoCall
  /\ IdleRow \in Conversation /\ Idle(IdleRow) /\ IdleRow.exists /\ NoStream.seen = IdleRow
BY DEF NoStream, Stream, IdleRow, Conversation, Idle

LEMMA StreamSet ==
  ASSUME streams \in [Streams -> Stream], NEW s \in Streams, NEW st \in Stream, Goes(s, st)
  PROVE  /\ streams' \in [Streams -> Stream]
         /\ streams'[s] = st
         /\ \A t \in Streams : t # s => streams'[t] = streams[t]
BY DEF Goes

(* Streams at the beginning of a turn. *)
LEMMA Openings ==
  ASSUME NEW at \in {"send", "open", "turn"}, NEW row \in Conversation
  PROVE  /\ [NoStream EXCEPT !.at = at, !.seen = row] \in Stream
         /\ [NoStream EXCEPT !.at = at] \in Stream
         /\ [NoStream EXCEPT !.at = at, !.seen = row].at = at
         /\ [NoStream EXCEPT !.at = at, !.seen = row].seen = row
         /\ [NoStream EXCEPT !.at = at, !.seen = row].call = NoCall
         /\ [NoStream EXCEPT !.at = at].at = at
         /\ [NoStream EXCEPT !.at = at].seen = IdleRow
         /\ [NoStream EXCEPT !.at = at].call = NoCall
BY DEF NoStream, Stream, IdleRow, Conversation

LEMMA MergedType ==
  ASSUME conv \in Conversation, NEW st,
         NEW status \in {"idle", "awaiting_confirmation"},
         NEW pending \in Calls \cup {NoCall, Claimed}
  PROVE  LET row == Merged(st, status, pending) IN
         /\ row \in Conversation
         /\ row.exists = conv.exists
         /\ row.status = IF st.seen.status # status THEN status ELSE conv.status
         /\ row.pending = IF st.seen.pending # pending THEN pending ELSE conv.pending
BY DEF Merged, Conversation

LEMMA SavesType ==
  ASSUME conv \in Conversation, WellShaped(conv), NEW row \in Conversation, Saves(row)
  PROVE  conv' \in Conversation /\ WellShaped(conv')
BY DEF Saves

LEMMA InitHolds == ConversationInit => ConvInv
<1> SUFFICES ASSUME ConversationInit PROVE ConvInv
  OBVIOUS
<1>1. /\ conv = IdleRow /\ offered = {} /\ rounds = 0 /\ rejected = {} /\ cut = FALSE
      /\ overlapped = FALSE /\ failed = {}
      /\ \A s \in Streams : streams[s] = NoStream
      /\ \A c \in Calls : answered[c] = 0 /\ ran[c] = 0
  BY DEF ConversationInit
<1>2. streams \in [Streams -> Stream]
  BY NoStreamType DEF ConversationInit
<1>3. answered \in [Calls -> Nat] /\ ran \in [Calls -> Nat]
  BY DEF ConversationInit
<1>4. ConversationTypeOK
  <2>1. WellShaped(conv) /\ conv \in Conversation
    BY <1>1, NoStreamType DEF WellShaped, Idle
  <2>2. rounds \in 0 .. MaxRounds
    BY <1>1, ConversationAssumption
  <2> QED
    BY <1>1, <1>2, <1>3, <2>1, <2>2 DEF ConversationTypeOK
<1>5. \A s \in Streams : streams[s].at = "none"
  BY <1>1, NoStreamType
<1>6. /\ \A s \in Streams : CallNamed(streams[s]) /\ StreamOK(streams[s])
      /\ \A s \in Streams : SoloOK(streams[s])
      /\ \A s \in Streams, c \in Calls : ~Holds(streams[s], c)
  BY <1>5 DEF CallNamed, StreamOK, SoloOK, Holds, Holding
<1>7. conv.pending \notin Calls
  BY <1>1, NoStreamType, ConversationAssumption DEF Idle
<1> QED
  BY <1>1, <1>4, <1>5, <1>6, <1>7
     DEF ConvInv, PendingOK, StreamsOK, CallsOK, AloneOK, Fresh

--------------------------------------------------------------------------------
(* Steps that hand no call over: the stream lets go of what it held, or     *)
(* held nothing, and no call becomes pending.                               *)

LEMMA QuietKeeps ==
  ASSUME ConvInv, NEW s \in Streams, NEW st \in Stream, st.at \notin Holding, Goes(s, st),
         UNCHANGED <<offered, answered, ran, rejected>>,
         conv'.pending \in Calls => conv'.pending = conv.pending
  PROVE  PendingOK' /\ StreamsOK' /\ CallsOK'
<1>1. /\ streams' \in [Streams -> Stream]
      /\ streams'[s] = st
      /\ \A t \in Streams : t # s => streams'[t] = streams[t]
  BY StreamSet DEF ConvInv, ConversationTypeOK
<1>2. \A c \in Calls : ~Holds(streams'[s], c)
  BY <1>1 DEF Holds
<1>3. \A t \in Streams : \A c : Holds(streams'[t], c) => Holds(streams[t], c)
  BY <1>1 DEF Holds
<1>4. PendingOK'
  BY <1>3 DEF ConvInv, PendingOK, Fresh
<1>5. \A t \in Streams : StreamOK(streams[t])'
  BY <1>1 DEF ConvInv, StreamsOK, StreamOK, Fresh
<1>6. StreamsOK'
  BY <1>3, <1>5 DEF ConvInv, StreamsOK
<1>7. CallsOK'
  BY DEF ConvInv, CallsOK, Fresh
<1> QED
  BY <1>4, <1>6, <1>7

(* Without overlaps, only the stream that moves is there. *)
LEMMA AloneKeeps ==
  ASSUME ConvInv, Solo, NEW s \in Streams, streams[s].at # "none",
         NEW st \in Stream, Goes(s, st), SoloOK(st)',
         \A c \in (offered \ failed)' :
           answered'[c] = 0 => conv'.pending = c \/ Holds(st, c)
  PROVE  AloneOK'
<1>1. /\ streams'[s] = st
      /\ \A t \in Streams : t # s => streams'[t] = streams[t]
  BY StreamSet DEF ConvInv, ConversationTypeOK
<1>2. \A t \in Streams : t # s => streams'[t].at = "none"
  BY <1>1 DEF ConvInv, AloneOK
<1>3. ASSUME NEW t \in Streams PROVE SoloOK(streams[t])'
  <2>1. CASE t = s
    BY <1>1, <2>1 DEF SoloOK
  <2>2. CASE t # s
    BY <1>2, <2>2 DEF SoloOK
  <2> QED
    BY <2>1, <2>2
<1>4. \A t, u \in Streams : streams'[t].at # "none" /\ streams'[u].at # "none" => t = u
  BY <1>2
<1>5. \A c \in (offered \ failed)' :
        answered'[c] = 0 => \/ conv'.pending = c
                            \/ \E t \in Streams : Holds(streams'[t], c)
  BY <1>1
<1> QED
  BY <1>3, <1>4, <1>5 DEF AloneOK

(* A request that comes in alone finds no other. *)
LEMMA StartKeeps ==
  ASSUME ConvInv, NEW s \in Streams, NEW st \in Stream, st.at \notin Holding, Starts(s, st),
         UNCHANGED <<conv, offered, answered, ran, rejected, cut, failed>>, CallNamed(st),
         Solo => SoloOK(st)
  PROVE  ConvInv'
<1>1. /\ rounds < MaxRounds /\ rounds' = rounds + 1 /\ Goes(s, st) /\ streams[s].at = "none"
      /\ overlapped' = (overlapped \/ \E t \in Streams : streams[t].at # "none")
  BY DEF Starts
<1>2. /\ streams' \in [Streams -> Stream]
      /\ streams'[s] = st
      /\ \A t \in Streams : t # s => streams'[t] = streams[t]
  BY <1>1, StreamSet DEF ConvInv, ConversationTypeOK
<1>3. ConversationTypeOK'
  <2>1. rounds' \in 0 .. MaxRounds
    BY <1>1, ConversationAssumption DEF ConvInv, ConversationTypeOK
  <2>2. overlapped' \in BOOLEAN
    BY <1>1, Zenon
  <2>3. WellShaped(conv)'
    BY DEF ConvInv, ConversationTypeOK, WellShaped
  <2> QED
    BY <1>2, <2>1, <2>2, <2>3 DEF ConvInv, ConversationTypeOK
<1>4. \A t \in Streams : CallNamed(streams'[t])
  BY <1>2 DEF ConvInv
<1>5. PendingOK' /\ StreamsOK' /\ CallsOK'
  BY <1>1, QuietKeeps
<1>6. ASSUME Solo' PROVE AloneOK'
  <2>1. Solo /\ \A t \in Streams : streams[t].at = "none"
    BY <1>1, <1>6, Zenon DEF Solo
  <2>2. \A t \in Streams : \A c : ~Holds(streams[t], c)
    BY <2>1 DEF Holds, Holding
  <2>3. \A c \in (offered \ failed)' : answered'[c] = 0 => conv'.pending = c
    BY <2>1, <2>2 DEF ConvInv, AloneOK
  <2>4. ASSUME NEW t \in Streams PROVE SoloOK(streams[t])'
    <3>1. CASE t = s
      BY <1>2, <2>1, <3>1 DEF SoloOK
    <3>2. CASE t # s
      BY <1>2, <2>1, <3>2 DEF SoloOK
    <3> QED
      BY <3>1, <3>2
  <2>5. \A t, u \in Streams : streams'[t].at # "none" /\ streams'[u].at # "none" => t = u
    BY <1>2, <2>1
  <2> QED
    BY <2>3, <2>4, <2>5 DEF AloneOK
<1>7. AloneOK'
  BY <1>6 DEF AloneOK
<1> QED
  BY <1>3, <1>4, <1>5, <1>7 DEF ConvInv

(* Steps of a stream: what is left to show of each. *)
LEMMA StreamKeeps ==
  ASSUME ConvInv, NEW s \in Streams, streams[s].at # "none", NEW st \in Stream, Goes(s, st),
         CallNamed(st),
         conv' \in Conversation, WellShaped(conv'), offered' \subseteq Calls,
         answered' \in [Calls -> Nat], ran' \in [Calls -> Nat], rejected' \subseteq Calls,
         failed' \subseteq Calls, UNCHANGED <<rounds, cut, overlapped>>,
         conv'.exists = conv.exists,
         PendingOK' /\ StreamsOK' /\ CallsOK',
         Solo => /\ SoloOK(st)'
                 /\ \A c \in (offered \ failed)' :
                      answered'[c] = 0 => conv'.pending = c \/ Holds(st, c)
  PROVE  ConvInv'
<1>1. /\ streams' \in [Streams -> Stream]
      /\ streams'[s] = st
      /\ \A t \in Streams : t # s => streams'[t] = streams[t]
  BY StreamSet DEF ConvInv, ConversationTypeOK
<1>2. ConversationTypeOK'
  BY <1>1 DEF ConvInv, ConversationTypeOK, WellShaped
<1>3. \A t \in Streams : CallNamed(streams'[t])
  BY <1>1 DEF ConvInv
<1>4. AloneOK'
  <2>1. CASE Solo
    BY <2>1, AloneKeeps
  <2>2. CASE ~Solo
    BY <2>2 DEF Solo, AloneOK
  <2> QED
    BY <2>1, <2>2
<1> QED
  BY <1>2, <1>3, <1>4 DEF ConvInv

--------------------------------------------------------------------------------
(* One lemma per action. *)

(* What a stream that moves finds. *)
LEMMA Facts ==
  ASSUME ConvInv, NEW s \in Streams
  PROVE  /\ streams[s] \in Stream /\ conv \in Conversation /\ WellShaped(conv)
         /\ offered \subseteq Calls /\ rejected \subseteq Calls /\ failed \subseteq Calls
         /\ answered \in [Calls -> Nat] /\ ran \in [Calls -> Nat]
         /\ CallNamed(streams[s]) /\ StreamOK(streams[s])
         /\ Solo => /\ SoloOK(streams[s])
                    /\ \A t \in Streams : t # s /\ streams[s].at # "none" => streams[t].at = "none"
                    /\ \A c \in offered \ failed :
                         /\ answered[c] = 0
                         /\ streams[s].at # "none"
                         => conv.pending = c \/ Holds(streams[s], c)
<1>1. /\ streams[s] \in Stream /\ conv \in Conversation /\ WellShaped(conv)
      /\ offered \subseteq Calls /\ rejected \subseteq Calls /\ failed \subseteq Calls
      /\ answered \in [Calls -> Nat] /\ ran \in [Calls -> Nat]
      /\ CallNamed(streams[s]) /\ StreamOK(streams[s])
  BY DEF ConvInv, ConversationTypeOK, StreamsOK
<1>2. ASSUME Solo
      PROVE  /\ SoloOK(streams[s])
             /\ \A t \in Streams : t # s /\ streams[s].at # "none" => streams[t].at = "none"
  BY <1>2 DEF ConvInv, AloneOK
<1>3. ASSUME Solo, NEW c \in offered \ failed, answered[c] = 0, streams[s].at # "none"
      PROVE  conv.pending = c \/ Holds(streams[s], c)
  BY <1>2, <1>3 DEF ConvInv, AloneOK, Holds, Holding
<1> QED
  BY <1>1, <1>2, <1>3

(* Nothing but the stream changes, and it holds nothing afterwards. *)
LEMMA MoveKeeps ==
  ASSUME ConvInv, NEW s \in Streams, streams[s].at # "none", streams[s].at \notin Holding,
         NEW st \in Stream, st.at \notin Holding, CallNamed(st), Goes(s, st),
         UNCHANGED <<conv, offered, answered, rounds, ran, rejected, cut, overlapped, failed>>,
         Solo => SoloOK(st)
  PROVE  ConvInv'
<1>1. PendingOK' /\ StreamsOK' /\ CallsOK'
  BY QuietKeeps
<1>2. ASSUME Solo
      PROVE  /\ SoloOK(st)'
             /\ \A c \in (offered \ failed)' : answered'[c] = 0 => conv'.pending = c \/ Holds(st, c)
  BY <1>2, Facts DEF SoloOK, Holds
<1> QED
  BY <1>1, <1>2, Facts, StreamKeeps

LEMMA StoppedOK == CallNamed(NoStream) /\ SoloOK(NoStream) /\ NoStream.at \notin Holding
BY NoStreamType DEF CallNamed, SoloOK, Holding

LEMMA LoadForMessageKeeps ==
  ASSUME ConvInv, NEW s \in Streams, LoadForMessage(s)
  PROVE  ConvInv'
<1>1. PICK st : st = [NoStream EXCEPT !.at = "send", !.seen = conv]
  OBVIOUS
<1>2. st \in Stream /\ st.at = "send" /\ st.seen = conv
  BY <1>1, Openings, Facts
<1>3. CallNamed(st) /\ SoloOK(st) /\ st.at \notin Holding
  BY <1>2 DEF CallNamed, SoloOK, Holding
<1> QED
  BY <1>1, <1>2, <1>3, StartKeeps DEF LoadForMessage

LEMMA LoadForConfirmKeeps ==
  ASSUME ConvInv, NEW s \in Streams, NEW c \in Calls, NEW b \in BOOLEAN, LoadForConfirm(s, c, b)
  PROVE  ConvInv'
<1>1. PICK st : st = [at |-> "claim", call |-> c, approved |-> b, round |-> 0, seen |-> conv]
  OBVIOUS
<1>2. /\ st \in Stream /\ st.at = "claim" /\ st.seen = conv /\ st.call = c
  BY <1>1, Facts DEF Stream
<1>3. Pending(conv, c)
  BY DEF LoadForConfirm, Pending
<1>4. CallNamed(st) /\ SoloOK(st) /\ st.at \notin Holding
  BY <1>2, <1>3 DEF CallNamed, SoloOK, Holding, Pending
<1> QED
  BY <1>1, <1>2, <1>4, StartKeeps DEF LoadForConfirm

LEMMA PrepareKeeps ==
  ASSUME ConvInv, NEW s \in Streams, PrepareMessage(s)
  PROVE  ConvInv'
<1>1. /\ streams[s].at = "send" /\ streams[s].at \notin Holding
      /\ UNCHANGED <<conv, offered, answered, rounds, ran, rejected, cut, overlapped, failed>>
  BY DEF PrepareMessage, Holding
<1>2. CASE Stops(s)
  BY <1>1, <1>2, NoStreamType, StoppedOK, MoveKeeps DEF Stops
<1>3. CASE streams[s].seen.status = "idle" /\ Goes(s, [NoStream EXCEPT !.at = "open"])
  <2>1. PICK st : st = [NoStream EXCEPT !.at = "open"]
    OBVIOUS
  <2>2. st \in Stream /\ st.at = "open"
    BY <2>1, Openings, NoStreamType
  <2>3. CallNamed(st) /\ st.at \notin Holding
    BY <2>2 DEF CallNamed, Holding
  <2>4. ASSUME Solo PROVE SoloOK(st)
    <3>1. streams[s].seen = conv
      BY <1>1, <2>4, Facts DEF SoloOK
    <3>2. Idle(conv)
      BY <1>3, <3>1, Facts DEF WellShaped, Idle
    <3> QED
      BY <2>2, <3>2 DEF SoloOK
  <2> QED
    BY <1>1, <1>3, <2>1, <2>2, <2>3, <2>4, MoveKeeps
<1> QED
  BY <1>2, <1>3 DEF PrepareMessage

LEMMA StreamMessageKeeps ==
  ASSUME ConvInv, NEW s \in Streams, StreamMessage(s)
  PROVE  ConvInv'
<1>1. /\ streams[s].at = "open" /\ streams[s].at \notin Holding
      /\ UNCHANGED <<conv, offered, answered, rounds, ran, rejected, cut, overlapped, failed>>
  BY DEF StreamMessage, Holding
<1>2. CASE Stops(s)
  BY <1>1, <1>2, NoStreamType, StoppedOK, MoveKeeps DEF Stops
<1>3. CASE Goes(s, [NoStream EXCEPT !.at = "turn", !.seen = conv])
  <2>1. PICK st : st = [NoStream EXCEPT !.at = "turn", !.seen = conv]
    OBVIOUS
  <2>2. st \in Stream /\ st.at = "turn" /\ st.seen = conv
    BY <2>1, Openings, Facts
  <2>3. CallNamed(st) /\ st.at \notin Holding
    BY <2>2 DEF CallNamed, Holding
  <2>4. ASSUME Solo PROVE SoloOK(st)
    BY <1>1, <2>2, <2>4, Facts DEF SoloOK
  <2> QED
    BY <1>1, <1>3, <2>1, <2>2, <2>3, <2>4, MoveKeeps
<1> QED
  BY <1>2, <1>3 DEF StreamMessage

LEMMA TurnRefusedKeeps ==
  ASSUME ConvInv, NEW s \in Streams, TurnRefused(s)
  PROVE  ConvInv'
<1>1. /\ streams[s].at = "turn" /\ streams[s].at \notin Holding /\ Stops(s)
      /\ UNCHANGED <<conv, offered, answered, rounds, ran, rejected, cut, overlapped, failed>>
  BY DEF TurnRefused, Holding
<1> QED
  BY <1>1, NoStreamType, StoppedOK, MoveKeeps DEF Stops

LEMMA CutOffKeeps ==
  ASSUME ConvInv, NEW s \in Streams, CutOff(s)
  PROVE  ConvInv'
<1>1. /\ Goes(s, NoStream) /\ cut' = TRUE
      /\ UNCHANGED <<conv, offered, answered, rounds, ran, rejected, overlapped, failed>>
  BY DEF CutOff, Stops
<1>2. PendingOK' /\ StreamsOK' /\ CallsOK'
  BY <1>1, NoStreamType, StoppedOK, QuietKeeps
<1>3. /\ streams' \in [Streams -> Stream]
      /\ streams'[s] = NoStream
      /\ \A t \in Streams : t # s => streams'[t] = streams[t]
  BY <1>1, NoStreamType, StreamSet DEF ConvInv, ConversationTypeOK
<1>4. ConversationTypeOK'
  BY <1>1, <1>3 DEF ConvInv, ConversationTypeOK, WellShaped
<1>5. \A t \in Streams : CallNamed(streams'[t])
  BY <1>3, StoppedOK DEF ConvInv
<1>6. AloneOK'
  BY <1>1 DEF AloneOK, Solo
<1> QED
  BY <1>2, <1>4, <1>5, <1>6 DEF ConvInv

LEMMA DeleteKeeps ==
  ASSUME ConvInv, DeleteConversation
  PROVE  ConvInv'
<1>1. /\ rounds < MaxRounds /\ rounds' = rounds + 1
      /\ conv' = [IdleRow EXCEPT !.exists = FALSE]
      /\ UNCHANGED <<streams, offered, answered, ran, rejected, cut, overlapped, failed>>
  BY DEF DeleteConversation
<1>2. /\ conv' \in Conversation /\ WellShaped(conv') /\ ~conv'.exists
      /\ conv'.pending \notin Calls
  BY <1>1, ConversationAssumption DEF IdleRow, Conversation, WellShaped
<1>3. rounds' \in 0 .. MaxRounds
  BY <1>1, ConversationAssumption DEF ConvInv, ConversationTypeOK
<1>4. ConversationTypeOK'
  BY <1>1, <1>2, <1>3 DEF ConvInv, ConversationTypeOK, WellShaped
<1>5. StreamsOK' /\ CallsOK'
  BY <1>1 DEF ConvInv, StreamsOK, StreamOK, CallsOK, Fresh
<1>6. PendingOK' /\ AloneOK'
  BY <1>2 DEF PendingOK, AloneOK, Solo
<1> QED
  BY <1>1, <1>4, <1>5, <1>6 DEF ConvInv

(* The row after the end of a turn: no call becomes pending, and without    *)
(* overlaps it is idle.                                                     *)
LEMMA IdleSaved ==
  ASSUME ConvInv, NEW s \in Streams, streams[s].at \in {"turn", "settle"},
         Saves(Merged(streams[s], "idle", NoCall))
  PROVE  /\ conv' \in Conversation /\ WellShaped(conv') /\ conv'.exists = conv.exists
         /\ conv'.pending \in Calls => conv'.pending = conv.pending
         /\ Solo => Idle(conv')
<1>1. PICK st, row : st = streams[s] /\ row = Merged(st, "idle", NoCall)
  OBVIOUS
<1>2. /\ row \in Conversation /\ row.exists = conv.exists
      /\ row.status = IF st.seen.status # "idle" THEN "idle" ELSE conv.status
      /\ row.pending = IF st.seen.pending # NoCall THEN NoCall ELSE conv.pending
  BY <1>1, MergedType, Facts
<1>3. conv' = IF conv.exists /\ WellShaped(row) THEN row ELSE conv
  BY <1>1 DEF Saves
<1>4. conv' \in Conversation /\ WellShaped(conv') /\ conv'.exists = conv.exists
  BY <1>2, <1>3, Facts
<1>5. conv'.pending \in Calls => conv'.pending = conv.pending
  BY <1>2, <1>3, ConversationAssumption
<1>6. ASSUME Solo PROVE Idle(conv')
  <2>1. CASE st.at = "turn"
    <3>1. Idle(st.seen) /\ Idle(conv)
      BY <1>1, <1>6, <2>1, Facts DEF SoloOK
    <3>2. Idle(row)
      BY <1>2, <3>1 DEF Idle
    <3> QED
      BY <1>3, <3>1, <3>2
  <2>2. CASE st.at = "settle"
    <3>1. Pending(st.seen, st.call) /\ st.call \in Calls
      BY <1>1, <1>6, <2>2, Facts DEF SoloOK, CallNamed
    <3>2. Idle(row)
      BY <1>2, <3>1, ConversationAssumption DEF Idle, Pending
    <3>3. WellShaped(row) /\ conv.exists
      BY <1>6, <3>2 DEF Idle, WellShaped, Solo
    <3> QED
      BY <1>3, <3>2, <3>3
  <2> QED
    BY <1>1, <2>1, <2>2
<1> QED
  BY <1>4, <1>5, <1>6

(* No call is left open at the end of a turn. *)
LEMMA NoneOpen ==
  ASSUME ConvInv, Solo, NEW s \in Streams, streams[s].at \in {"turn", "settle"},
         NEW c \in offered \ failed
  PROVE  answered[c] # 0
<1>1. SUFFICES ASSUME answered[c] = 0 PROVE FALSE
  OBVIOUS
<1>2. conv.pending = c \/ Holds(streams[s], c)
  BY <1>1, Facts
<1>3. c \in Calls
  BY Facts
<1>4. CASE streams[s].at = "turn"
  BY <1>2, <1>3, <1>4, Facts, ConversationAssumption DEF SoloOK, Idle, Holds, Holding
<1>5. CASE streams[s].at = "settle"
  BY <1>1, <1>2, <1>3, <1>5, Facts, ConversationAssumption DEF SoloOK, Holds
<1> QED
  BY <1>4, <1>5

LEMMA TurnEndsKeeps ==
  ASSUME ConvInv, NEW s \in Streams, TurnEnds(s)
  PROVE  ConvInv'
<1>1. /\ streams[s].at = "turn" /\ Goes(s, NoStream)
      /\ Saves(Merged(streams[s], "idle", NoCall))
      /\ UNCHANGED <<offered, answered, rounds, ran, rejected, cut, overlapped, failed>>
  BY DEF TurnEnds, Stops
<1>2. /\ conv' \in Conversation /\ WellShaped(conv') /\ conv'.exists = conv.exists
      /\ conv'.pending \in Calls => conv'.pending = conv.pending
  BY <1>1, IdleSaved
<1>3. PendingOK' /\ StreamsOK' /\ CallsOK'
  BY <1>1, <1>2, NoStreamType, StoppedOK, QuietKeeps
<1>4. SoloOK(NoStream)'
  BY NoStreamType DEF SoloOK
<1>5. Solo => \A c \in (offered \ failed)' : answered'[c] # 0
  BY <1>1, NoneOpen
<1> QED
  BY <1>1, <1>2, <1>3, <1>4, <1>5, Facts, NoStreamType, StoppedOK, StreamKeeps

LEMMA SettleKeeps ==
  ASSUME ConvInv, NEW s \in Streams, SettleCall(s)
  PROVE  ConvInv'
<1>1. PICK st : /\ Goes(s, st)
                /\ st = NoStream \/ st = [NoStream EXCEPT !.at = "turn"]
  BY DEF SettleCall, Stops
<1>2. /\ streams[s].at = "settle" /\ Saves(Merged(streams[s], "idle", NoCall))
      /\ UNCHANGED <<offered, answered, rounds, ran, rejected, cut, overlapped, failed>>
  BY DEF SettleCall
<1>3. /\ conv' \in Conversation /\ WellShaped(conv') /\ conv'.exists = conv.exists
      /\ conv'.pending \in Calls => conv'.pending = conv.pending
      /\ Solo => Idle(conv')
  BY <1>2, IdleSaved
<1>4. st \in Stream /\ st.at \in {"none", "turn"} /\ st.seen = IdleRow
  BY <1>1, Openings, NoStreamType
<1>5. st.at \notin Holding /\ CallNamed(st)
  BY <1>4 DEF Holding, CallNamed
<1>6. PendingOK' /\ StreamsOK' /\ CallsOK'
  BY <1>1, <1>2, <1>3, <1>4, <1>5, QuietKeeps
<1>7. Solo => SoloOK(st)'
  BY <1>3, <1>4, NoStreamType DEF SoloOK
<1>8. Solo => \A c \in (offered \ failed)' : answered'[c] # 0
  BY <1>2, NoneOpen
<1> QED
  BY <1>1, <1>2, <1>3, <1>4, <1>5, <1>6, <1>7, <1>8, Facts, StreamKeeps

(* A call that is new is in nobody's hands. *)
LEMMA NewCall ==
  ASSUME ConvInv, NEW c \in Calls, c \notin offered
  PROVE  Fresh(c) /\ conv.pending # c /\ \A t \in Streams : ~Holds(streams[t], c)
BY DEF ConvInv, CallsOK, PendingOK, StreamsOK, StreamOK, Holds

LEMMA TurnReadsKeeps ==
  ASSUME ConvInv, NEW s \in Streams, NEW c \in Calls, TurnReads(s, c)
  PROVE  ConvInv'
<1>1. PICK st : st = [streams[s] EXCEPT !.round = streams[s].round + 1]
  OBVIOUS
<1>2. /\ streams[s].at = "turn" /\ c \notin offered /\ offered' = offered \cup {c}
      /\ answered' = [answered EXCEPT ![c] = answered[c] + 1]
      /\ Goes(s, st)
      /\ UNCHANGED <<conv, rounds, ran, rejected, cut, overlapped, failed>>
  BY <1>1 DEF TurnReads
<1>3. st \in Stream /\ st.at = "turn" /\ st.seen = streams[s].seen
  BY <1>1, <1>2, Facts DEF Stream
<1>4. CallNamed(st)
  BY <1>3 DEF CallNamed
<1>5. Fresh(c) /\ conv.pending # c /\ \A t \in Streams : ~Holds(streams[t], c)
  BY <1>2, NewCall
<1>6. /\ answered' \in [Calls -> Nat] /\ answered'[c] = 1
      /\ \A d \in Calls : d # c => answered'[d] = answered[d]
  BY <1>2, <1>5, Facts DEF Fresh
<1>7. /\ streams'[s] = st
      /\ \A t \in Streams : t # s => streams'[t] = streams[t]
  BY <1>2, <1>3, StreamSet DEF ConvInv, ConversationTypeOK
<1>8. \A t \in Streams : \A d : Holds(streams'[t], d) => Holds(streams[t], d) /\ t # s
  BY <1>3, <1>7 DEF Holds, Holding
<1>9. PendingOK'
  BY <1>2, <1>5, <1>6, <1>8, Facts DEF ConvInv, PendingOK, Fresh
<1>10. ASSUME NEW t \in Streams PROVE StreamOK(streams[t])'
  <2>1. CASE t = s
    BY <1>3, <1>7, <2>1 DEF StreamOK, Holding
  <2>2. CASE t # s
    <3>1. streams'[t] = streams[t] /\ streams[t] \in Stream /\ StreamOK(streams[t])
      BY <1>7, <2>2, Facts
    <3>2. CASE streams[t].at \in Holding
      <4>1. streams[t].call \in Calls /\ streams[t].call # c
        BY <1>5, <3>1, <3>2, Facts DEF StreamOK, Holds
      <4> QED
        BY <1>2, <1>6, <3>1, <4>1 DEF StreamOK, Fresh
    <3>3. CASE streams[t].at \notin Holding
      BY <3>1, <3>3 DEF StreamOK
    <3> QED
      BY <3>2, <3>3
  <2> QED
    BY <2>1, <2>2
<1>11. StreamsOK'
  BY <1>8, <1>10 DEF ConvInv, StreamsOK
<1>12. CallsOK'
  BY <1>2, <1>5, <1>6 DEF ConvInv, CallsOK, Fresh
<1>13. ASSUME Solo
       PROVE  /\ SoloOK(st)'
              /\ \A d \in (offered \ failed)' : answered'[d] # 0
  <2>1. SoloOK(st)'
    BY <1>2, <1>3, <1>13, Facts DEF SoloOK
  <2>2. \A d \in offered \ failed : answered[d] # 0
    BY <1>2, <1>13, NoneOpen
  <2> QED
    BY <1>2, <1>6, <2>1, <2>2, Facts
<1> QED
  BY <1>2, <1>3, <1>4, <1>6, <1>9, <1>11, <1>12, <1>13, Facts, StreamKeeps

LEMMA TurnFailsKeeps ==
  ASSUME ConvInv, NEW s \in Streams, NEW c \in Calls, TurnFails(s, c)
  PROVE  ConvInv'
<1>1. /\ streams[s].at = "turn" /\ c \notin offered /\ offered' = offered \cup {c}
      /\ failed' = failed \cup {c} /\ Goes(s, NoStream)
      /\ UNCHANGED <<conv, answered, rounds, ran, rejected, cut, overlapped>>
  BY DEF TurnFails, Stops
<1>2. Fresh(c) /\ conv.pending # c /\ \A t \in Streams : ~Holds(streams[t], c)
  BY <1>1, NewCall
<1>3. /\ streams'[s] = NoStream
      /\ \A t \in Streams : t # s => streams'[t] = streams[t]
  BY <1>1, NoStreamType, StreamSet DEF ConvInv, ConversationTypeOK
<1>4. \A t \in Streams : \A d : Holds(streams'[t], d) => Holds(streams[t], d)
  BY <1>3, StoppedOK DEF Holds
<1>5. PendingOK'
  BY <1>1, <1>4 DEF ConvInv, PendingOK, Fresh
<1>6. \A t \in Streams : StreamOK(streams[t])'
  BY <1>1, <1>3, StoppedOK DEF ConvInv, StreamsOK, StreamOK, Fresh
<1>7. StreamsOK'
  BY <1>4, <1>6 DEF ConvInv, StreamsOK
<1>8. CallsOK'
  BY <1>1 DEF ConvInv, CallsOK, Fresh
<1>9. SoloOK(NoStream)'
  BY NoStreamType DEF SoloOK
<1>10. Solo => \A d \in (offered \ failed)' : answered'[d] # 0
  BY <1>1, NoneOpen
<1> QED
  BY <1>1, <1>5, <1>7, <1>8, <1>9, <1>10, Facts, NoStreamType, StoppedOK, StreamKeeps

LEMMA TurnProposesKeeps ==
  ASSUME ConvInv, NEW s \in Streams, NEW c \in Calls, TurnProposes(s, c)
  PROVE  ConvInv'
<1>1. PICK st : st = [streams[s] EXCEPT !.at = "offer", !.call = c]
  OBVIOUS
<1>2. /\ streams[s].at = "turn" /\ c \notin offered /\ offered' = offered \cup {c}
      /\ Goes(s, st)
      /\ UNCHANGED <<conv, answered, rounds, ran, rejected, cut, overlapped, failed>>
  BY <1>1 DEF TurnProposes
<1>3. st \in Stream /\ st.at = "offer" /\ st.call = c /\ st.seen = streams[s].seen
  BY <1>1, <1>2, Facts DEF Stream
<1>4. CallNamed(st)
  BY <1>3 DEF CallNamed
<1>5. Fresh(c) /\ conv.pending # c /\ \A t \in Streams : ~Holds(streams[t], c)
  BY <1>2, NewCall
<1>6. /\ streams'[s] = st
      /\ \A t \in Streams : t # s => streams'[t] = streams[t]
  BY <1>2, <1>3, StreamSet DEF ConvInv, ConversationTypeOK
<1>7. \A t \in Streams : \A d : Holds(streams'[t], d) =>
        (t = s /\ d = c) \/ (Holds(streams[t], d) /\ t # s /\ d # c)
  BY <1>3, <1>5, <1>6 DEF Holds, Holding
<1>8. PendingOK'
  BY <1>2, <1>5, <1>7 DEF ConvInv, PendingOK, Fresh
<1>9. \A t \in Streams : StreamOK(streams[t])'
  BY <1>2, <1>3, <1>5, <1>6 DEF ConvInv, StreamsOK, StreamOK, Fresh
<1>10. StreamsOK'
  BY <1>7, <1>9 DEF ConvInv, StreamsOK
<1>11. CallsOK'
  BY <1>2 DEF ConvInv, CallsOK, Fresh
<1>12. ASSUME Solo
       PROVE  /\ SoloOK(st)'
              /\ \A d \in (offered \ failed)' : answered'[d] = 0 => Holds(st, d)
  <2>1. SoloOK(st)'
    BY <1>2, <1>3, <1>12, Facts DEF SoloOK
  <2>2. \A d \in offered \ failed : answered[d] # 0
    BY <1>2, <1>12, NoneOpen
  <2>3. Holds(st, c)
    BY <1>3 DEF Holds, Holding
  <2> QED
    BY <1>2, <2>1, <2>2, <2>3
<1> QED
  BY <1>2, <1>3, <1>4, <1>8, <1>10, <1>11, <1>12, Facts, StreamKeeps

(* A stream that lets go of its fresh call may make it the pending one. *)
LEMMA HandBack ==
  ASSUME ConvInv, NEW s \in Streams, streams[s].at \in {"offer", "run"}, Goes(s, NoStream),
         UNCHANGED <<offered, answered, ran, rejected>>,
         conv'.pending \in Calls => conv'.pending \in {conv.pending, streams[s].call}
  PROVE  PendingOK' /\ StreamsOK' /\ CallsOK'
<1>1. CASE conv'.pending # streams[s].call \/ conv'.pending \notin Calls
  BY <1>1, NoStreamType, StoppedOK, QuietKeeps
<1>2. CASE conv'.pending = streams[s].call /\ conv'.pending \in Calls
  <2>1. PICK c \in Calls : c = streams[s].call
    BY <1>2
  <2>2. Fresh(c) /\ c \in offered /\ Holds(streams[s], c)
    BY <2>1, Facts DEF StreamOK, Holds, Holding
  <2>3. /\ streams'[s] = NoStream
        /\ \A t \in Streams : t # s => streams'[t] = streams[t]
    BY NoStreamType, StreamSet DEF ConvInv, ConversationTypeOK
  <2>4. \A t \in Streams : \A d : Holds(streams'[t], d) => Holds(streams[t], d) /\ t # s
    BY <2>3, StoppedOK DEF Holds
  <2>5. \A t \in Streams : ~Holds(streams'[t], c)
    BY <2>2, <2>4 DEF ConvInv, StreamsOK
  <2>6. PendingOK'
    BY <1>2, <2>1, <2>2, <2>5 DEF PendingOK, Fresh
  <2>7. \A t \in Streams : StreamOK(streams[t])'
    BY <2>3, StoppedOK DEF ConvInv, StreamsOK, StreamOK, Fresh
  <2>8. StreamsOK'
    BY <2>4, <2>7 DEF ConvInv, StreamsOK
  <2>9. CallsOK'
    BY DEF ConvInv, CallsOK, Fresh
  <2> QED
    BY <2>6, <2>8, <2>9
<1> QED
  BY <1>1, <1>2

LEMMA AwaitKeeps ==
  ASSUME ConvInv, NEW s \in Streams, AwaitConfirmation(s)
  PROVE  ConvInv'
<1>1. PICK st, row : st = streams[s] /\ row = Merged(st, "awaiting_confirmation", st.call)
  OBVIOUS
<1>2. /\ st.at = "offer" /\ Goes(s, NoStream) /\ Saves(row)
      /\ UNCHANGED <<offered, answered, rounds, ran, rejected, cut, overlapped, failed>>
  BY <1>1 DEF AwaitConfirmation, Stops
<1>3. st.call \in Calls
  BY <1>1, <1>2, Facts DEF CallNamed
<1>4. /\ row \in Conversation /\ row.exists = conv.exists
      /\ row.status = IF st.seen.status # "awaiting_confirmation"
                      THEN "awaiting_confirmation" ELSE conv.status
      /\ row.pending = IF st.seen.pending # st.call THEN st.call ELSE conv.pending
  <2>1. conv \in Conversation
    BY Facts
  <2> QED
    BY <1>1, <1>3, <2>1, MergedType
<1>5. conv' = IF conv.exists /\ WellShaped(row) THEN row ELSE conv
  BY <1>2 DEF Saves
<1>6. conv' \in Conversation /\ WellShaped(conv') /\ conv'.exists = conv.exists
  BY <1>4, <1>5, Facts
<1>7. conv'.pending \in {conv.pending, st.call}
  BY <1>4, <1>5
<1>8. PendingOK' /\ StreamsOK' /\ CallsOK'
  BY <1>1, <1>2, <1>7, HandBack
<1>9. ASSUME Solo
      PROVE  \A c \in (offered \ failed)' : answered'[c] = 0 => conv'.pending = c
  <2>1. Idle(conv) /\ Idle(st.seen) /\ conv.exists
    BY <1>1, <1>2, <1>9, Facts DEF SoloOK, Solo
  <2>2. conv'.pending = st.call
    <3>1. row.status = "awaiting_confirmation" /\ row.pending = st.call
      BY <1>3, <1>4, <2>1, ConversationAssumption DEF Idle
    <3>2. WellShaped(row)
      BY <1>3, <3>1, ConversationAssumption DEF WellShaped
    <3> QED
      BY <1>5, <2>1, <3>1, <3>2
  <2>3. \A c \in offered \ failed : answered[c] = 0 => conv.pending = c \/ st.call = c
    BY <1>1, <1>2, <1>9, Facts DEF Holds
  <2> QED
    BY <1>2, <2>1, <2>2, <2>3, Facts, ConversationAssumption DEF Idle
<1>10. SoloOK(NoStream)'
  BY NoStreamType DEF SoloOK
<1> QED
  BY <1>1, <1>2, <1>6, <1>8, <1>9, <1>10, Facts, NoStreamType, StoppedOK, StreamKeeps

LEMMA ReleaseKeeps ==
  ASSUME ConvInv, NEW s \in Streams, ReleaseClaim(s)
  PROVE  ConvInv'
<1>1. PICK st : st = streams[s]
  OBVIOUS
<1>2. /\ st.at = "run" /\ Goes(s, NoStream)
      /\ conv' = IF /\ conv.exists
                    /\ conv.status = "awaiting_confirmation"
                    /\ conv.pending = Claimed
                 THEN [conv EXCEPT !.pending = st.call] ELSE conv
      /\ UNCHANGED <<offered, answered, rounds, ran, rejected, cut, overlapped, failed>>
  BY <1>1 DEF ReleaseClaim, Stops
<1>3. st.call \in Calls
  BY <1>1, <1>2, Facts DEF CallNamed
<1>4. /\ conv' \in Conversation /\ WellShaped(conv') /\ conv'.exists = conv.exists
      /\ conv'.pending \in {conv.pending, st.call}
  BY <1>2, <1>3, Facts, ConversationAssumption DEF Conversation, WellShaped
<1>5. PendingOK' /\ StreamsOK' /\ CallsOK'
  BY <1>1, <1>2, <1>4, HandBack
<1>6. ASSUME Solo
      PROVE  \A c \in (offered \ failed)' : answered'[c] = 0 => conv'.pending = c
  <2>1. conv.pending = Claimed /\ conv.exists
    BY <1>1, <1>2, <1>6, Facts DEF SoloOK, Solo
  <2>2. conv.status = "awaiting_confirmation"
    BY <2>1, Facts, ConversationAssumption DEF WellShaped
  <2>3. conv'.pending = st.call
    BY <1>2, <2>1, <2>2, Facts DEF Conversation
  <2>4. \A c \in offered \ failed : answered[c] = 0 => conv.pending = c \/ st.call = c
    BY <1>1, <1>2, <1>6, Facts DEF Holds
  <2> QED
    BY <1>2, <2>1, <2>3, <2>4, Facts, ConversationAssumption
<1>7. SoloOK(NoStream)'
  BY NoStreamType DEF SoloOK
<1> QED
  BY <1>1, <1>2, <1>4, <1>5, <1>6, <1>7, Facts, NoStreamType, StoppedOK, StreamKeeps

LEMMA ClaimKeeps ==
  ASSUME ConvInv, NEW s \in Streams, ClaimPending(s)
  PROVE  ConvInv'
<1>1. /\ streams[s].at = "claim" /\ streams[s].call \in Calls
      /\ UNCHANGED <<offered, answered, rounds, ran, rejected, cut, overlapped, failed>>
  BY Facts DEF ClaimPending, CallNamed
<1>2. CASE /\ conv.exists /\ conv.status = "awaiting_confirmation"
           /\ conv.pending = streams[s].call
  <2>1. PICK c, st : c = streams[s].call /\ st = [streams[s] EXCEPT !.at = "run"]
    OBVIOUS
  <2>2. conv' = [conv EXCEPT !.pending = Claimed] /\ Goes(s, st)
    BY <1>2, <2>1 DEF ClaimPending
  <2>3. st \in Stream /\ st.at = "run" /\ st.call = c /\ st.seen = streams[s].seen
    BY <2>1, Facts DEF Stream
  <2>4. CallNamed(st) /\ c \in Calls
    BY <1>1, <2>1, <2>3 DEF CallNamed
  <2>5. /\ conv' \in Conversation /\ WellShaped(conv') /\ conv'.exists = conv.exists
        /\ conv'.pending = Claimed
    BY <1>2, <2>2, Facts, ConversationAssumption DEF Conversation, WellShaped
  <2>6. Fresh(c) /\ c \in offered /\ \A t \in Streams : ~Holds(streams[t], c)
    BY <1>2, <2>1, <2>4 DEF ConvInv, PendingOK
  <2>7. /\ streams'[s] = st
        /\ \A t \in Streams : t # s => streams'[t] = streams[t]
    BY <2>2, <2>3, StreamSet DEF ConvInv, ConversationTypeOK
  <2>8. \A t \in Streams : \A d : Holds(streams'[t], d) =>
          (t = s /\ d = c) \/ (Holds(streams[t], d) /\ t # s /\ d # c)
    BY <2>3, <2>6, <2>7 DEF Holds
  <2>9. PendingOK'
    BY <2>5, ConversationAssumption DEF PendingOK
  <2>10. \A t \in Streams : StreamOK(streams[t])'
    BY <1>1, <2>3, <2>6, <2>7 DEF ConvInv, StreamsOK, StreamOK, Fresh
  <2>11. StreamsOK'
    BY <2>8, <2>10 DEF ConvInv, StreamsOK
  <2>12. CallsOK'
    BY <1>1 DEF ConvInv, CallsOK, Fresh
  <2>13. ASSUME Solo
         PROVE  /\ SoloOK(st)'
                /\ \A d \in (offered \ failed)' : answered'[d] = 0 => Holds(st, d)
    <3>1. SoloOK(st)'
      BY <1>1, <2>1, <2>3, <2>5, <2>13, Facts DEF SoloOK
    <3>2. Holds(st, c)
      BY <2>3 DEF Holds, Holding
    <3>3. \A d \in offered \ failed : answered[d] = 0 => d = c
      BY <1>1, <1>2, <2>1, <2>13, Facts DEF Holds, Holding
    <3> QED
      BY <1>1, <3>1, <3>2, <3>3
  <2> QED
    BY <1>1, <2>2, <2>3, <2>4, <2>5, <2>9, <2>11, <2>12, <2>13, Facts, StreamKeeps
<1>3. CASE ~(/\ conv.exists /\ conv.status = "awaiting_confirmation"
             /\ conv.pending = streams[s].call)
  <2>1. UNCHANGED conv /\ Goes(s, NoStream)
    BY <1>3 DEF ClaimPending, Stops
  <2>2. streams[s].at \notin Holding
    BY <1>1 DEF Holding
  <2> QED
    BY <1>1, <2>1, <2>2, NoStreamType, StoppedOK, MoveKeeps
<1> QED
  BY <1>2, <1>3

(* The decision and its record: the stream keeps its call. *)
LEMMA KeptCall ==
  ASSUME ConvInv, NEW s \in Streams, streams[s].at \in {"run", "answer"},
         NEW st \in Stream, NEW c, c = streams[s].call, st.call = c,
         st.at \in {"answer", "settle"},
         Goes(s, st)
  PROVE  /\ streams'[s] = st
         /\ \A t \in Streams : t # s => streams'[t] = streams[t]
         /\ \A t \in Streams, d \in Calls : Holds(streams'[t], d) => Holds(streams[t], d)
         /\ \A t \in Streams : t # s => ~Holds(streams[t], c)
         /\ conv.pending # c /\ c \in Calls /\ c \in offered
         /\ CallNamed(st) /\ Holds(st, c)
<1>1. /\ streams'[s] = st
      /\ \A t \in Streams : t # s => streams'[t] = streams[t]
  BY StreamSet DEF ConvInv, ConversationTypeOK
<1>2. c \in Calls /\ c \in offered /\ Holds(streams[s], c)
  BY Facts DEF CallNamed, StreamOK, Holds, Holding
<1>3. \A t \in Streams, d \in Calls : Holds(streams'[t], d) => Holds(streams[t], d)
  BY <1>1 DEF Holds, Holding
<1>4. \A t \in Streams : t # s => ~Holds(streams[t], c)
  BY <1>2 DEF ConvInv, StreamsOK
<1>5. conv.pending # c
  BY <1>2 DEF ConvInv, PendingOK
<1>6. CallNamed(st) /\ Holds(st, c)
  BY <1>2 DEF CallNamed, Holds, Holding
<1> QED
  BY <1>1, <1>2, <1>3, <1>4, <1>5, <1>6

LEMMA DecideKeeps ==
  ASSUME ConvInv, NEW s \in Streams, RunTool(s) \/ Reject(s)
  PROVE  ConvInv'
<1>1. PICK c, st : c = streams[s].call /\ st = [streams[s] EXCEPT !.at = "answer"]
  OBVIOUS
<1>2. /\ streams[s].at = "run" /\ Goes(s, st)
      /\ UNCHANGED <<conv, offered, answered, rounds, cut, overlapped, failed>>
  BY <1>1 DEF RunTool, Reject
<1>3. \/ ran' = [ran EXCEPT ![c] = ran[c] + 1] /\ rejected' = rejected
      \/ ran' = ran /\ rejected' = rejected
      \/ ran' = ran /\ rejected' = rejected \cup {c}
  BY <1>1 DEF RunTool, Reject
<1>4. st \in Stream /\ st.at = "answer" /\ st.call = c /\ st.seen = streams[s].seen
  BY <1>1, Facts DEF Stream
<1>5. /\ streams'[s] = st
      /\ \A t \in Streams : t # s => streams'[t] = streams[t]
      /\ \A t \in Streams, d \in Calls : Holds(streams'[t], d) => Holds(streams[t], d)
      /\ \A t \in Streams : t # s => ~Holds(streams[t], c)
      /\ conv.pending # c /\ c \in Calls /\ c \in offered /\ CallNamed(st) /\ Holds(st, c)
  <2>1. /\ streams[s].at \in {"run", "answer"} /\ st.at \in {"answer", "settle"}
        /\ c = streams[s].call
    BY <1>1, <1>2, <1>4
  <2> QED
    BY <1>2, <1>4, <2>1, KeptCall, Zenon
<1>6. Fresh(c)
  BY <1>1, <1>2, Facts DEF StreamOK, Holding
<1>7. /\ ran' \in [Calls -> Nat] /\ rejected' \subseteq Calls
      /\ ran'[c] <= 1 /\ (ran'[c] = 1 => c \notin rejected')
      /\ \A d \in Calls : d # c => ran'[d] = ran[d] /\ (d \in rejected' <=> d \in rejected)
  BY <1>3, <1>5, <1>6, Facts DEF Fresh
<1>8. PendingOK'
  BY <1>2, <1>5, <1>7 DEF ConvInv, PendingOK, Fresh
<1>9. ASSUME NEW t \in Streams PROVE StreamOK(streams[t])'
  <2>1. CASE t = s
    BY <1>2, <1>4, <1>5, <1>6, <2>1 DEF StreamOK, Fresh
  <2>2. CASE t # s
    <3>1. streams'[t] = streams[t] /\ StreamOK(streams[t]) /\ ~Holds(streams[t], c)
      BY <1>5, <2>2, Facts
    <3>2. offered \subseteq Calls
      BY Facts
    <3> QED
      BY <1>2, <1>7, <3>1, <3>2 DEF StreamOK, Fresh, Holds
  <2> QED
    BY <2>1, <2>2
<1>10. StreamsOK'
  BY <1>5, <1>9 DEF ConvInv, StreamsOK
<1>11. CallsOK'
  BY <1>2, <1>5, <1>7 DEF ConvInv, CallsOK, Fresh
<1>12. ASSUME Solo
       PROVE  /\ SoloOK(st)'
              /\ \A d \in (offered \ failed)' : answered'[d] = 0 => conv'.pending = d \/ Holds(st, d)
  <2>1. SoloOK(st)'
    BY <1>1, <1>2, <1>4, <1>12, Facts DEF SoloOK
  <2>2. \A d \in offered \ failed : answered[d] = 0 => conv.pending = d \/ d = c
    BY <1>1, <1>2, <1>12, Facts DEF Holds
  <2> QED
    BY <1>2, <1>5, <2>1, <2>2
<1> QED
  BY <1>2, <1>4, <1>5, <1>7, <1>8, <1>10, <1>11, <1>12, Facts, StreamKeeps

(* A tool that fails leaves its claim behind, and perhaps its changes. *)
LEMMA ToolFailsKeeps ==
  ASSUME ConvInv, NEW s \in Streams, ToolFails(s)
  PROVE  ConvInv'
<1>1. PICK c : c = streams[s].call
  OBVIOUS
<1>2. /\ streams[s].at = "run" /\ Goes(s, NoStream) /\ failed' = failed \cup {c}
      /\ ran' = [ran EXCEPT ![c] = ran[c] + 1] \/ ran' = ran
      /\ UNCHANGED <<conv, offered, answered, rounds, rejected, cut, overlapped>>
  BY <1>1 DEF ToolFails, Stops
<1>3. c \in Calls /\ c \in offered /\ Fresh(c) /\ Holds(streams[s], c)
  BY <1>1, <1>2, Facts DEF CallNamed, StreamOK, Holds, Holding
<1>4. conv.pending # c /\ \A t \in Streams : t # s => ~Holds(streams[t], c)
  BY <1>3 DEF ConvInv, PendingOK, StreamsOK
<1>5. /\ streams'[s] = NoStream
      /\ \A t \in Streams : t # s => streams'[t] = streams[t]
  BY <1>2, NoStreamType, StreamSet DEF ConvInv, ConversationTypeOK
<1>6. \A t \in Streams : \A d : Holds(streams'[t], d) => Holds(streams[t], d) /\ t # s
  BY <1>5, StoppedOK DEF Holds
<1>7. /\ ran' \in [Calls -> Nat] /\ ran'[c] <= 1
      /\ \A d \in Calls : d # c => ran'[d] = ran[d]
  BY <1>2, <1>3, Facts DEF Fresh
<1>8. PendingOK'
  BY <1>2, <1>4, <1>6, <1>7 DEF ConvInv, PendingOK, Fresh
<1>9. ASSUME NEW t \in Streams PROVE StreamOK(streams[t])'
  <2>1. CASE t = s
    BY <1>5, <2>1, StoppedOK DEF StreamOK
  <2>2. CASE t # s
    <3>1. streams'[t] = streams[t] /\ StreamOK(streams[t]) /\ ~Holds(streams[t], c)
      BY <1>4, <1>5, <2>2, Facts
    <3>2. offered \subseteq Calls
      BY Facts
    <3> QED
      BY <1>2, <1>7, <3>1, <3>2 DEF StreamOK, Fresh, Holds
  <2> QED
    BY <2>1, <2>2
<1>10. StreamsOK'
  BY <1>6, <1>9 DEF ConvInv, StreamsOK
<1>11. CallsOK'
  BY <1>2, <1>3, <1>7 DEF ConvInv, CallsOK, Fresh
<1>12. SoloOK(NoStream)'
  BY NoStreamType DEF SoloOK
<1>13. ASSUME Solo
       PROVE  \A d \in (offered \ failed)' : answered'[d] = 0 => conv'.pending = d
  <2>1. \A d \in offered \ failed : answered[d] = 0 => conv.pending = d \/ d = c
    BY <1>1, <1>2, <1>13, Facts DEF Holds
  <2> QED
    BY <1>2, <2>1
<1> QED
  BY <1>2, <1>3, <1>7, <1>8, <1>10, <1>11, <1>12, <1>13, Facts, NoStreamType, StoppedOK,
     StreamKeeps

LEMMA AnswerKeeps ==
  ASSUME ConvInv, NEW s \in Streams, AnswerCall(s)
  PROVE  ConvInv'
<1>1. /\ streams[s].at = "answer"
      /\ UNCHANGED <<conv, offered, rounds, ran, rejected, cut, overlapped, failed>>
  BY DEF AnswerCall
<1>2. CASE conv.exists
  <2>1. PICK c, st : c = streams[s].call /\ st = [streams[s] EXCEPT !.at = "settle"]
    OBVIOUS
  <2>2. answered' = [answered EXCEPT ![c] = answered[c] + 1] /\ Goes(s, st)
    BY <1>2, <2>1 DEF AnswerCall
  <2>3. st \in Stream /\ st.at = "settle" /\ st.call = c /\ st.seen = streams[s].seen
    BY <2>1, Facts DEF Stream
  <2>4. /\ streams'[s] = st
        /\ \A t \in Streams : t # s => streams'[t] = streams[t]
        /\ \A t \in Streams, d \in Calls : Holds(streams'[t], d) => Holds(streams[t], d)
        /\ \A t \in Streams : t # s => ~Holds(streams[t], c)
        /\ conv.pending # c /\ c \in Calls /\ c \in offered /\ CallNamed(st) /\ Holds(st, c)
    <3>1. /\ streams[s].at \in {"run", "answer"} /\ st.at \in {"answer", "settle"}
          /\ c = streams[s].call
      BY <1>1, <2>1, <2>3
    <3> QED
      BY <2>2, <2>3, <3>1, KeptCall, Zenon
  <2>5. answered[c] = 0
    BY <1>1, <2>1, Facts DEF StreamOK, Holding
  <2>6. /\ answered' \in [Calls -> Nat] /\ answered'[c] = 1
        /\ \A d \in Calls : d # c => answered'[d] = answered[d]
    BY <2>2, <2>4, <2>5, Facts
  <2>7. PendingOK'
    BY <1>1, <2>4, <2>6 DEF ConvInv, PendingOK, Fresh
  <2>8. ASSUME NEW t \in Streams PROVE StreamOK(streams[t])'
    <3>1. CASE t = s
      BY <1>1, <2>3, <2>4, <3>1 DEF StreamOK
    <3>2. CASE t # s
      <4>1. streams'[t] = streams[t] /\ StreamOK(streams[t]) /\ ~Holds(streams[t], c)
        BY <2>4, <3>2, Facts
      <4>2. offered \subseteq Calls
        BY Facts
      <4> QED
        BY <1>1, <2>6, <4>1, <4>2 DEF StreamOK, Fresh, Holds
    <3> QED
      BY <3>1, <3>2
  <2>9. StreamsOK'
    BY <2>4, <2>8 DEF ConvInv, StreamsOK
  <2>10. CallsOK'
    BY <1>1, <2>4, <2>6 DEF ConvInv, CallsOK, Fresh
  <2>11. ASSUME Solo
         PROVE  /\ SoloOK(st)'
                /\ \A d \in (offered \ failed)' : answered'[d] = 0 => conv'.pending = d \/ Holds(st, d)
    <3>1. SoloOK(st)'
      BY <1>1, <2>1, <2>3, <2>6, <2>11, Facts DEF SoloOK
    <3>2. \A d \in offered \ failed : answered[d] = 0 => conv.pending = d \/ d = c
      BY <1>1, <2>1, <2>11, Facts DEF Holds
    <3> QED
      BY <1>1, <2>4, <2>6, <3>1, <3>2, Facts
  <2> QED
    BY <1>1, <2>2, <2>3, <2>4, <2>6, <2>7, <2>9, <2>10, <2>11, Facts, StreamKeeps
<1>3. CASE ~conv.exists
  <2>1. UNCHANGED answered /\ Goes(s, NoStream)
    BY <1>3 DEF AnswerCall, Stops
  <2>2. PendingOK' /\ StreamsOK' /\ CallsOK'
    BY <1>1, <2>1, NoStreamType, StoppedOK, QuietKeeps
  <2> QED
    BY <1>1, <1>3, <2>1, <2>2, Facts, NoStreamType, StoppedOK, StreamKeeps DEF Solo
<1> QED
  BY <1>2, <1>3

--------------------------------------------------------------------------------
LEMMA StepHolds == ConvInv /\ [ConversationNext]_convVars => ConvInv'
<1> SUFFICES ASSUME ConvInv, [ConversationNext]_convVars PROVE ConvInv'
  OBVIOUS
<1>1. ASSUME NEW s \in Streams, StreamStep(s) PROVE ConvInv'
  BY <1>1, PrepareKeeps, StreamMessageKeeps, TurnEndsKeeps, TurnRefusedKeeps, TurnReadsKeeps,
     TurnFailsKeeps, TurnProposesKeeps, AwaitKeeps, ClaimKeeps, DecideKeeps, ReleaseKeeps,
     ToolFailsKeeps, AnswerKeeps, SettleKeeps
     DEF StreamStep
<1>2. CASE UNCHANGED convVars
  <2>1. /\ ConversationTypeOK' /\ PendingOK' /\ CallsOK' /\ StreamsOK'
        /\ \A s \in Streams : CallNamed(streams[s])'
    BY <1>2 DEF convVars, ConvInv, ConversationTypeOK, WellShaped, PendingOK, CallsOK, StreamsOK,
         StreamOK, CallNamed, Fresh
  <2>2. AloneOK'
    BY <1>2 DEF convVars, ConvInv, AloneOK, Solo, SoloOK
  <2> QED
    BY <2>1, <2>2 DEF ConvInv
<1> QED
  BY <1>1, <1>2, LoadForMessageKeeps, LoadForConfirmKeeps, CutOffKeeps, DeleteKeeps
     DEF ConversationNext

(* The conversation and its streams keep their types, and the check         *)
(* constraint on the shape of the row is never violated.                    *)
THEOREM ConversationTypeCorrect == ConversationSpec => []ConversationTypeOK
<1>1. ConvInv => ConversationTypeOK
  BY DEF ConvInv
<1> QED
  BY <1>1, InitHolds, StepHolds, PTL DEF ConversationSpec

(* rehydrate_turns: a call is answered at most once in the history that     *)
(* the provider gets, however many streams overlap or are cut off.          *)
THEOREM CallsAnsweredOnce == ConversationSpec => []AnsweredOnce
<1>1. ConvInv => AnsweredOnce
  BY DEF ConvInv, CallsOK, AnsweredOnce
<1> QED
  BY <1>1, InitHolds, StepHolds, PTL DEF ConversationSpec

(* run_turn and stream_confirm: a call the user was asked about stays the   *)
(* pending one until it is decided, as long as no two streams overlap,      *)
(* none is cut off and the conversation is there.  A call whose tool rolled *)
(* the session back is excepted: its claim stays.                           *)
THEOREM CallsWaitForTheUser == ConversationSpec => []CallWaitsForItsUser
<1>1. ASSUME ConvInv PROVE CallWaitsForItsUser
  <2> SUFFICES ASSUME NEW c \in offered \ failed, Undecided(c), Solo
               PROVE  conv.status = "awaiting_confirmation" /\ conv.pending = c
    BY DEF CallWaitsForItsUser, Solo
  <2>1. answered[c] = 0 /\ \A s \in Streams : ~Holds(streams[s], c)
    BY DEF Undecided, Holds
  <2>2. conv.pending = c
    BY <1>1, <2>1 DEF ConvInv, AloneOK
  <2>3. c \in Calls /\ conv \in Conversation /\ WellShaped(conv)
    BY <1>1 DEF ConvInv, ConversationTypeOK
  <2> QED
    BY <2>2, <2>3, ConversationAssumption DEF WellShaped
<1> QED
  BY <1>1, InitHolds, StepHolds, PTL DEF ConversationSpec

--------------------------------------------------------------------------------
(* The refinement of Decisions. *)

LEMMA FateInit == ConversationInit => D!Init
<1> SUFFICES ASSUME ConversationInit PROVE D!Init
  OBVIOUS
<1>1. rejected = {} /\ \A c \in Calls : ran[c] = 0
  BY DEF ConversationInit
<1> QED
  BY <1>1 DEF D!Init, Fate

FateOf(c) ==
  CASE ran[c] = 0 /\ c \notin rejected -> "open"
    [] ran[c] = 1 /\ c \notin rejected -> "ran"
    [] ran[c] = 0 /\ c \in rejected -> "turned down"
    [] OTHER -> "both"

LEMMA FateFunction == Fate = [c \in Calls |-> FateOf(c)] /\ Fate' = [c \in Calls |-> FateOf(c)']
BY DEF Fate, FateOf

LEMMA FateStep == ConvInv /\ [ConversationNext]_convVars => [D!Next]_Fate
<1> SUFFICES ASSUME ConvInv, [ConversationNext]_convVars PROVE D!Next \/ Fate' = Fate
  OBVIOUS
<1>1. ASSUME NEW s \in Streams, RunTool(s) \/ ToolFails(s) \/ Reject(s),
             ~UNCHANGED <<ran, rejected>>
      PROVE  D!Next
  <2>1. PICK c : c = streams[s].call
    OBVIOUS
  <2>2. Fresh(c) /\ c \in Calls
    BY <1>1, <2>1, Facts DEF RunTool, ToolFails, Reject, StreamOK, Holding, CallNamed
  <2>3. ran \in [Calls -> Nat]
    BY Facts, <1>1
  <2>4. Fate[c] = "open"
    BY <2>2 DEF Fate, Fresh
  <2>5. CASE ran' = [ran EXCEPT ![c] = ran[c] + 1] /\ rejected' = rejected
    <3>1. ran'[c] = 1 /\ c \notin rejected' /\ \A d \in Calls : d # c => ran'[d] = ran[d]
      BY <2>2, <2>3, <2>5 DEF Fresh
    <3>2. \A d \in Calls : FateOf(d)' = IF d = c THEN "ran" ELSE FateOf(d)
      <4>1. FateOf(c)' = "ran"
        BY <3>1 DEF FateOf
      <4>2. ASSUME NEW d \in Calls, d # c PROVE FateOf(d)' = FateOf(d)
        BY <2>5, <3>1, <4>2 DEF FateOf
      <4> QED
        BY <4>1, <4>2
    <3>3. Fate' = [Fate EXCEPT ![c] = "ran"]
      BY <2>2, <3>2, FateFunction
    <3> QED
      BY <2>2, <2>4, <3>3 DEF D!Next, D!Run
  <2>6. CASE ran' = ran /\ rejected' = rejected \cup {c}
    <3>1. ran'[c] = 0 /\ c \in rejected'
            /\ \A d \in Calls : d # c => (d \in rejected' <=> d \in rejected)
      BY <2>2, <2>6 DEF Fresh
    <3>2. \A d \in Calls : FateOf(d)' = IF d = c THEN "turned down" ELSE FateOf(d)
      <4>1. FateOf(c)' = "turned down"
        BY <3>1 DEF FateOf
      <4>2. ASSUME NEW d \in Calls, d # c PROVE FateOf(d)' = FateOf(d)
        BY <2>6, <3>1, <4>2 DEF FateOf
      <4> QED
        BY <4>1, <4>2
    <3>3. Fate' = [Fate EXCEPT ![c] = "turned down"]
      BY <2>2, <3>2, FateFunction
    <3> QED
      BY <2>2, <2>4, <3>3 DEF D!Next, D!TurnDown
  <2> QED
    BY <1>1, <2>1, <2>5, <2>6 DEF RunTool, ToolFails, Reject
<1>2. ASSUME UNCHANGED <<ran, rejected>> PROVE Fate' = Fate
  BY <1>2 DEF Fate
<1>3. \/ UNCHANGED <<ran, rejected>>
      \/ \E s \in Streams : RunTool(s) \/ ToolFails(s) \/ Reject(s)
  BY DEF convVars, ConversationNext, StreamStep, LoadForMessage, LoadForConfirm, PrepareMessage,
     StreamMessage, TurnEnds, TurnRefused, TurnReads, TurnFails, TurnProposes, AwaitConfirmation,
     ClaimPending, ReleaseClaim, AnswerCall, SettleCall, CutOff, DeleteConversation
<1> QED
  BY <1>1, <1>2, <1>3

(* _claim_pending: every behaviour of the conversation, with confirmations  *)
(* that race, claims that are released and streams that are cut off, is a   *)
(* behaviour of Decisions: a call runs once or is turned down, for good.    *)
THEOREM ConversationImplementsDecisions == ConversationSpec => DecidesOnce
<1>1. ConversationSpec => []ConvInv
  BY InitHolds, StepHolds, PTL DEF ConversationSpec
<1> QED
  BY <1>1, FateInit, FateStep, PTL DEF ConversationSpec, DecidesOnce, D!Spec
================================================================================
