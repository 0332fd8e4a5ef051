----------------------------- MODULE Conversations -----------------------------
(***************************************************************************)
(* One conversation with the assistant (services/agent_chat.py,            *)
(* agents/loop.py).  A request streams: it loads the conversation row, asks *)
(* the provider again and again, runs the tools that only read, and stops  *)
(* at the first tool that writes, which waits for the user.  A second      *)
(* request approves or rejects that call and goes on with the turn.        *)
(*                                                                         *)
(* A stream keeps the row it loaded, and at the end of a turn writes only  *)
(* the columns that differ from it; two streams may overlap.  Every commit *)
(* is a step.  The stream may be cut off between any two of them, because  *)
(* the client went away (_heartbeat cancels the producer) or the server    *)
(* stopped.                                                                *)
(***************************************************************************)
EXTENDS Naturals

CONSTANTS
  Streams,         \* requests in progress at a time
  Calls,           \* tool calls the provider may propose
  MaxIterations,   \* MAX_ITERATIONS of a turn
  MaxRounds,       \* bound: messages and confirmations
  NoCall,          \* pending_call_id NULL
  Claimed          \* _CLAIMED

ASSUME ConversationAssumption ==
  /\ NoCall # Claimed
  /\ NoCall \notin Calls /\ Claimed \notin Calls
  /\ MaxIterations \in Nat /\ MaxRounds \in Nat

VARIABLES
  conv,            \* the agent_conversations row
  streams,         \* stream -> the request it serves
  offered,         \* calls of the assistant messages
  answered,        \* call -> tool messages that answer it
  rounds,          \* messages and confirmations so far
  ran,             \* history: call -> times its changes were committed
  rejected,        \* history: calls the user turned down
  cut,             \* history: was a stream cut off?
  overlapped,      \* history: did two streams ever overlap?
  failed           \* history: calls whose tool rolled its session back

convVars == <<conv, streams, offered, answered, rounds, ran, rejected, cut,
              overlapped, failed>>

(* AgentConversation *)
Conversation ==
  [exists : BOOLEAN, status : {"idle", "awaiting_confirmation"},
   pending : Calls \cup {NoCall, Claimed}]

Stream ==
  [at : {"none", "send", "open", "turn", "offer", "claim", "run", "answer",
         "settle"},
   call : Calls \cup {NoCall}, approved : BOOLEAN, round : Nat,
   seen : Conversation]

IdleRow == [exists |-> TRUE, status |-> "idle", pending |-> NoCall]

NoStream == [at |-> "none", call |-> NoCall, approved |-> FALSE, round |-> 0,
             seen |-> IdleRow]

ConversationInit ==
  /\ conv = IdleRow
  /\ streams = [s \in Streams |-> NoStream]
  /\ offered = {}
  /\ answered = [c \in Calls |-> 0]
  /\ rounds = 0
  /\ ran = [c \in Calls |-> 0]
  /\ rejected = {}
  /\ cut = FALSE
  /\ overlapped = FALSE
  /\ failed = {}

Goes(s, st) == streams' = [streams EXCEPT ![s] = st]
Stops(s) == Goes(s, NoStream)

(* A request comes in while no other is in progress, or overlaps. *)
Starts(s, st) ==
  /\ streams[s].at = "none"
  /\ conv.exists
  /\ rounds < MaxRounds
  /\ rounds' = rounds + 1
  /\ overlapped' = (overlapped \/ \E t \in Streams : streams[t].at # "none")
  /\ Goes(s, st)

--------------------------------------------------------------------------------
(* A message. *)

(* prepare_message loads the row, waits for it FOR UPDATE without reading   *)
(* it again ...                                                             *)
LoadForMessage(s) ==
  /\ Starts(s, [NoStream EXCEPT !.at = "send", !.seen = conv])
  /\ UNCHANGED <<conv, offered, answered, ran, rejected, cut, failed>>

(* mutant: a message is taken while a call awaits its confirmation *)
PrepareMessageAnyway(s) ==
  /\ streams[s].at = "send"
  /\ \/ Stops(s)
     \/ conv.exists /\ Goes(s, [NoStream EXCEPT !.at = "open"])
  /\ UNCHANGED <<conv, offered, answered, rounds, ran, rejected, cut,
                 overlapped, failed>>

(* ... refuses it while a call awaits its confirmation, and saves it.  (The *)
(* daily limit, the attachments and the credential may refuse it too.)      *)
PrepareMessage(s) ==
  LET st == streams[s] IN
  /\ st.at = "send"
  /\ \/ Stops(s)
     \/ /\ st.seen.status = "idle"
        /\ conv.exists
        /\ Goes(s, [NoStream EXCEPT !.at = "open"])
  /\ UNCHANGED <<conv, offered, answered, rounds, ran, rejected, cut,
                 overlapped, failed>>

(* stream_message loads the row again, in a session of its own. *)
StreamMessage(s) ==
  /\ streams[s].at = "open"
  /\ \/ Stops(s)
     \/ /\ conv.exists
        /\ Goes(s, [NoStream EXCEPT !.at = "turn", !.seen = conv])
  /\ UNCHANGED <<conv, offered, answered, rounds, ran, rejected, cut,
                 overlapped, failed>>

(* What an assignment to the loaded row writes: the columns that differ     *)
(* from what was loaded.                                                    *)
Merged(st, status, pending) ==
  [conv EXCEPT
     !.status = IF st.seen.status # status THEN status ELSE conv.status,
     !.pending = IF st.seen.pending # pending THEN pending ELSE conv.pending]

(* ck_agent_conversations_pending_shape *)
WellShaped(row) == row.status = "awaiting_confirmation" <=> row.pending # NoCall

(* A commit that the check refuses, or whose row is gone, changes nothing.  *)
Saves(row) == conv' = IF conv.exists /\ WellShaped(row) THEN row ELSE conv

(* run_turn: an answer in words, a failing provider, or too many rounds of  *)
(* tools ends the turn ...                                                  *)
TurnEnds(s) ==
  LET st == streams[s] IN
  /\ st.at = "turn"
  /\ Saves(Merged(st, "idle", NoCall))
  /\ Stops(s)
  /\ UNCHANGED <<offered, answered, rounds, ran, rejected, cut,
                 overlapped, failed>>

(* ... a refusal of an off-topic request does so without touching the row,  *)
(* and so does a deleted conversation, on which the messages cannot be      *)
(* saved ...                                                                *)
TurnRefused(s) ==
  /\ streams[s].at = "turn"
  /\ Stops(s)
  /\ UNCHANGED <<conv, offered, answered, rounds, ran, rejected, cut,
                 overlapped, failed>>

(* ... a tool that reads, is unknown or fails its preview is answered at    *)
(* once and the provider asked again ...                                    *)
TurnReads(s, c) ==
  LET st == streams[s] IN
  /\ st.at = "turn"
  /\ conv.exists
  /\ st.round < MaxIterations
  /\ c \notin offered
  /\ offered' = offered \cup {c}
  /\ answered' = [answered EXCEPT ![c] = answered[c] + 1]
  /\ Goes(s, [st EXCEPT !.round = st.round + 1])
  /\ UNCHANGED <<conv, rounds, ran, rejected, cut, overlapped, failed>>

(* ... a reading tool that raises, or whose service rolled the session back, *)
(* leaves its call without an answer: the rollback expires the row that the  *)
(* next statement reads, and that read raises too ...                       *)
TurnFails(s, c) ==
  LET st == streams[s] IN
  /\ st.at = "turn"
  /\ conv.exists
  /\ st.round < MaxIterations
  /\ c \notin offered
  /\ offered' = offered \cup {c}
  /\ failed' = failed \cup {c}
  /\ Stops(s)
  /\ UNCHANGED <<conv, answered, rounds, ran, rejected, cut, overlapped>>

(* ... and a tool that writes is saved with its preview ... *)
TurnProposes(s, c) ==
  LET st == streams[s] IN
  /\ st.at = "turn"
  /\ conv.exists
  /\ st.round < MaxIterations
  /\ c \notin offered
  /\ offered' = offered \cup {c}
  /\ Goes(s, [st EXCEPT !.at = "offer", !.call = c])
  /\ UNCHANGED <<conv, answered, rounds, ran, rejected, cut,
                 overlapped, failed>>

(* ... and then made the pending one. *)
AwaitConfirmation(s) ==
  LET st == streams[s] IN
  /\ st.at = "offer"
  /\ Saves(Merged(st, "awaiting_confirmation", st.call))
  /\ Stops(s)
  /\ UNCHANGED <<offered, answered, rounds, ran, rejected, cut,
                 overlapped, failed>>

--------------------------------------------------------------------------------
(* A confirmation. *)

(* stream_confirm: the row must have the call pending when it is loaded ... *)
LoadForConfirm(s, c, approved) ==
  /\ conv.status = "awaiting_confirmation"
  /\ conv.pending = c
  /\ Starts(s, [at |-> "claim", call |-> c, approved |-> approved, round |-> 0,
                seen |-> conv])
  /\ UNCHANGED <<conv, offered, answered, ran, rejected, cut, failed>>

(* mutant: the claim trusts the row that was loaded *)
ClaimPendingStale(s) ==
  /\ streams[s].at = "claim"
  /\ conv' = [conv EXCEPT !.pending = Claimed]
  /\ Goes(s, [streams[s] EXCEPT !.at = "run"])
  /\ UNCHANGED <<offered, answered, rounds, ran, rejected, cut,
                 overlapped, failed>>

(* ... and still when it is taken (_claim_pending). *)
ClaimPending(s) ==
  LET st == streams[s] IN
  /\ st.at = "claim"
  /\ IF /\ conv.exists
        /\ conv.status = "awaiting_confirmation"
        /\ conv.pending = st.call
     THEN /\ conv' = [conv EXCEPT !.pending = Claimed]
          /\ Goes(s, [st EXCEPT !.at = "run"])
     ELSE UNCHANGED conv /\ Stops(s)
  /\ UNCHANGED <<offered, answered, rounds, ran, rejected, cut,
                 overlapped, failed>>

(* An approved call runs: its service commits, and a refusal by the service *)
(* (an AppError that no rollback preceded, or a tool that is unknown) is an *)
(* answer like another.                                                     *)
RunTool(s) ==
  LET st == streams[s] IN
  /\ st.at = "run"
  /\ st.approved
  /\ \/ ran' = [ran EXCEPT ![st.call] = ran[st.call] + 1]
     \/ UNCHANGED ran
  /\ Goes(s, [st EXCEPT !.at = "answer"])
  /\ UNCHANGED <<conv, offered, answered, rounds, rejected, cut,
                 overlapped, failed>>

(* mutant: the claim is kept *)
ReleaseClaimNot(s) ==
  /\ streams[s].at = "run"
  /\ streams[s].approved
  /\ Stops(s)
  /\ UNCHANGED <<conv, offered, answered, rounds, ran, rejected, cut,
                 overlapped, failed>>

(* The preview has changed since the user saw it: the user is asked again   *)
(* (_release_claim).                                                        *)
ReleaseClaim(s) ==
  LET st == streams[s] IN
  /\ st.at = "run"
  /\ st.approved
  /\ IF /\ conv.exists
        /\ conv.status = "awaiting_confirmation"
        /\ conv.pending = Claimed
     THEN conv' = [conv EXCEPT !.pending = st.call]
     ELSE UNCHANGED conv
  /\ Stops(s)
  /\ UNCHANGED <<offered, answered, rounds, ran, rejected, cut,
                 overlapped, failed>>

(* The tool raises, before or after a commit of its own, or its service     *)
(* rolls back and refuses.  Either way the loaded row is expired, and the   *)
(* next statement reads it: the handler before it could give the claim      *)
(* back, persist_message before it could save the answer.  That read raises *)
(* in its turn, and the claim stays.                                        *)
ToolFails(s) ==
  LET st == streams[s] IN
  /\ st.at = "run"
  /\ st.approved
  /\ \/ ran' = [ran EXCEPT ![st.call] = ran[st.call] + 1]
     \/ UNCHANGED ran
  /\ failed' = failed \cup {st.call}
  /\ Stops(s)
  /\ UNCHANGED <<conv, offered, answered, rounds, rejected, cut, overlapped>>

Reject(s) ==
  LET st == streams[s] IN
  /\ st.at = "run"
  /\ ~st.approved
  /\ rejected' = rejected \cup {st.call}
  /\ Goes(s, [st EXCEPT !.at = "answer"])
  /\ UNCHANGED <<conv, offered, answered, rounds, ran, cut, overlapped, failed>>

(* The result is saved as a tool message, unless the conversation is gone. *)
AnswerCall(s) ==
  LET st == streams[s] IN
  /\ st.at = "answer"
  /\ IF conv.exists
     THEN /\ answered' = [answered EXCEPT ![st.call] = answered[st.call] + 1]
          /\ Goes(s, [st EXCEPT !.at = "settle"])
     ELSE UNCHANGED answered /\ Stops(s)
  /\ UNCHANGED <<conv, offered, rounds, ran, rejected, cut, overlapped, failed>>

(* The conversation is idle, and the turn goes on if a credential is left. *)
SettleCall(s) ==
  LET st == streams[s] IN
  /\ st.at = "settle"
  /\ Saves(Merged(st, "idle", NoCall))
  /\ \/ conv.exists /\ Goes(s, [NoStream EXCEPT !.at = "turn"])
     \/ Stops(s)
  /\ UNCHANGED <<offered, answered, rounds, ran, rejected, cut,
                 overlapped, failed>>

--------------------------------------------------------------------------------
(* delete_conversation *)
DeleteConversation ==
  /\ conv.exists
  /\ rounds < MaxRounds
  /\ rounds' = rounds + 1
  /\ conv' = [IdleRow EXCEPT !.exists = FALSE]
  /\ UNCHANGED <<streams, offered, answered, ran, rejected, cut,
                 overlapped, failed>>

(* The client goes away, or the server stops: nothing after the last commit *)
(* happens.                                                                 *)
CutOff(s) ==
  /\ streams[s].at # "none"
  /\ Stops(s)
  /\ cut' = TRUE
  /\ UNCHANGED <<conv, offered, answered, rounds, ran, rejected,
                 overlapped, failed>>

StreamStep(s) ==
  \/ PrepareMessage(s)
  \/ StreamMessage(s)
  \/ TurnEnds(s)
  \/ TurnRefused(s)
  \/ \E c \in Calls : TurnReads(s, c) \/ TurnFails(s, c) \/ TurnProposes(s, c)
  \/ AwaitConfirmation(s)
  \/ ClaimPending(s)
  \/ RunTool(s)
  \/ ReleaseClaim(s)
  \/ ToolFails(s)
  \/ Reject(s)
  \/ AnswerCall(s)
  \/ SettleCall(s)

ConversationNext ==
  \/ \E s \in Streams :
       \/ LoadForMessage(s)
       \/ \E c \in Calls, b \in BOOLEAN : LoadForConfirm(s, c, b)
       \/ StreamStep(s)
       \/ CutOff(s)
  \/ DeleteConversation

ConversationSpec == ConversationInit /\ [][ConversationNext]_convVars

(* A stream that is not cut off goes on: provider calls time out, and no    *)
(* step waits for another stream.                                           *)
ConversationFairness == \A s \in Streams : WF_convVars(StreamStep(s))

--------------------------------------------------------------------------------
ConversationTypeOK ==
  /\ conv \in Conversation
  /\ WellShaped(conv)
  /\ streams \in [Streams -> Stream]
  /\ offered \subseteq Calls
  /\ answered \in [Calls -> Nat]
  /\ rounds \in 0 .. MaxRounds
  /\ ran \in [Calls -> Nat]
  /\ rejected \subseteq Calls
  /\ cut \in BOOLEAN
  /\ overlapped \in BOOLEAN
  /\ failed \subseteq Calls

(* rehydrate_turns hands the messages back to the provider, which refuses a *)
(* call with two results: a call is answered at most once, however the      *)
(* approvals, the rejections, the retries after a failure and the cut-off   *)
(* streams fall.                                                            *)
AnsweredOnce == \A c \in Calls : answered[c] <= 1

(* The fate of the calls, for the abstract specification: the changes of a  *)
(* call are counted, so a call that ran twice maps to no fate there is.     *)
Fate == [c \in Calls |->
           CASE ran[c] = 0 /\ c \notin rejected -> "open"
             [] ran[c] = 1 /\ c \notin rejected -> "ran"
             [] ran[c] = 0 /\ c \in rejected -> "turned down"
             [] OTHER -> "both"]

D == INSTANCE Decisions WITH fate <- Fate

(* _claim_pending: two confirmations that arrive together, or the one after *)
(* a failure, a released claim or a cut-off stream, decide a call once: the *)
(* conversation implements Decisions.                                       *)
DecidesOnce == D!Spec

(* A call the user has been asked about stays the pending one until it is   *)
(* decided, so that the user can still answer: messages are refused         *)
(* meanwhile, and a call whose preview changed is given back.  Not so a     *)
(* call whose tool rolled the session back, nor any when two streams        *)
(* overlap, a stream is cut off or the conversation is deleted.             *)
Undecided(c) == answered[c] = 0 /\ \A s \in Streams : streams[s].call # c

CallWaitsForItsUser ==
  \A c \in offered \ failed :
    Undecided(c) /\ ~overlapped /\ ~cut /\ conv.exists
      => conv.status = "awaiting_confirmation" /\ conv.pending = c

(* The claim of a call is a matter of time, even if streams overlap: unless *)
(* a stream is cut off or the tool of this very call rolls its session      *)
(* back, the conversation gets out of the state in which it takes neither   *)
(* messages nor confirmations.                                              *)
ClaimIsGivenBack ==
  \A c \in Calls :
    (\E s \in Streams : streams[s].at = "run" /\ streams[s].call = c)
      ~> (conv.pending # Claimed \/ cut \/ c \in failed)

(* stream_confirm, on a tool that raises: "The tool did not finish, so the  *)
(* user can approve it again."  A claim is not left behind by a stream that *)
(* was not cut off.                                                         *)
UnfinishedCallIsGivenBack ==
  conv.pending = Claimed /\ ~cut
    => \E s \in Streams : streams[s].at \in {"run", "answer", "settle"}
================================================================================
