---------------------------- MODULE Conversation ----------------------------
(* The messages of a sprint's agents, and the turns that the runner          *)
(* schedules for them (schedule_a2a_turns, src/runner/run-hermes-sprint.py)  *)
(* against the mailboxes of the API (src/messaging/message_store.py).        *)
(*                                                                           *)
(* The runner keeps a list of its own and posts each message to the API      *)
(* without its id: the API's copy has another one, and what the runner has   *)
(* consumed is a set of ids.  Posts and reads may fail, and a post may       *)
(* arrive late.                                                              *)
EXTENDS Naturals, FiniteSets

CONSTANTS Speakers,            \* the agents of the phases
          PhaseAgents,         \* a sequence: who runs each phase
          Helpers,             \* subagents that may be created, the job's limit
          MaxTurns, MaxPhaseTurns, MaxDelegations,
          MaxMessages, MaxAsks \* bounds on messages, and on those from outside

ASSUME MessagesAreBounded == MaxMessages \in Nat \ {0}
ASSUME TurnsAreBounded == {MaxTurns, MaxPhaseTurns, MaxDelegations} \subseteq Nat
ASSUME PhasesFollow == /\ {1, 2} \subseteq DOMAIN PhaseAgents
                       /\ \A p \in DOMAIN PhaseAgents : PhaseAgents[p] \in Speakers

VARIABLES phase, doing,        \* the phase whose conversation it is; the runner's step
          kept,                \* messages in local_messages
          posted, delivered,   \* those the API has; those it lists as DELIVERED
          late,                \* posts given up that may still arrive
          to, about, plain,    \* recipient; conversation; not schedulable (a handoff)
          consumed,            \* _consumed_message_ids
          target, shown,       \* of the turn: what it answers, all it acknowledges
          spent, spentHere,    \* turns of the job, of this phase
          delegations,
          hired, helpers,      \* subagents of the job; those in phases_by_agent now
          answered,            \* history: completed turns per message
          unseen               \* history: kept copies consumed without the API's

talkVars == <<phase, doing, kept, posted, delivered, late, to, about, plain, consumed, target,
              shown, spent, spentHere, delegations, hired, helpers, answered, unseen>>

Messages == 1..MaxMessages
Nobody == "nobody"
Actors == Speakers \cup Helpers
Present == Speakers \cup helpers
Sides == {"kept", "api"}
Known == kept \cup posted \cup late
NoId == <<0, "kept">>

TalkTypeOK ==
    /\ phase \in DOMAIN PhaseAgents /\ doing \in {"look", "turn", "quiet", "halted", "broken"}
    /\ kept \cup posted \cup late \subseteq Messages /\ delivered \subseteq posted
    /\ to \in [Messages -> Actors \cup {Nobody}] /\ helpers \subseteq hired /\ hired \subseteq Helpers
    /\ about \in [Messages -> {0} \cup DOMAIN PhaseAgents] /\ plain \subseteq Messages
    /\ consumed \cup shown \subseteq Messages \X Sides /\ target \in (Messages \X Sides) \cup {NoId}
    /\ spent \in 0..MaxTurns /\ spentHere \in 0..MaxPhaseTurns /\ delegations \in 0..MaxDelegations
    /\ answered \in [Messages -> 0..MaxTurns] /\ unseen \subseteq Messages

\* The first phase has been merged, and its handoff to the second recorded.
TalkInit ==
    /\ phase = 1 /\ doing = "look" /\ kept = {1} /\ late = {} /\ plain = {1}
    /\ posted = {1} /\ delivered = {1}
    /\ to = [m \in Messages |-> IF m = 1 THEN PhaseAgents[2] ELSE Nobody]
    /\ about = [m \in Messages |-> IF m = 1 THEN 1 ELSE 0]
    /\ consumed = {} /\ target = NoId /\ shown = {} /\ spent = 0 /\ spentHere = 0
    /\ delegations = 0 /\ hired = {} /\ helpers = {} /\ answered = [m \in Messages |-> 0] /\ unseen = {}

-----------------------------------------------------------------------------
Fresh == CHOOSE m \in Messages : m \notin Known /\ \A n \in Messages : n \notin Known => m <= n
Room == Known # Messages

Addressed(m, a, c) == to' = [to EXCEPT ![m] = a] /\ about' = [about EXCEPT ![m] = c]

\* Someone outside the runner posts a question in this conversation: the API
\* alone has it.
Ask(a) ==
    /\ Room /\ Cardinality(posted \ kept) < MaxAsks
    /\ posted' = posted \cup {Fresh} /\ delivered' = delivered \cup {Fresh}
    /\ Addressed(Fresh, a, phase)
    /\ UNCHANGED <<phase, doing, kept, late, plain, consumed, target, shown, spent, spentHere,
                   delegations, hired, helpers, answered, unseen>>

\* _record_message: kept, and posted; the post may be lost, or only seem so.
Post(a, conversation) ==
    /\ Room /\ kept' = kept \cup {Fresh} /\ Addressed(Fresh, a, conversation)
    /\ \/ posted' = posted \cup {Fresh} /\ late' = late
       \/ posted' = posted /\ late' = late
       \/ posted' = posted /\ late' = late \cup {Fresh}

RecordNothing == UNCHANGED <<kept, posted, late, to, about>>

Arrives(m) ==
    /\ m \in late /\ late' = late \ {m}
    /\ posted' = posted \cup {m} /\ delivered' = delivered \cup {m}
    /\ UNCHANGED <<phase, doing, kept, to, about, plain, consumed, target, shown, spent, spentHere,
                   delegations, hired, helpers, answered, unseen>>

\* What a read of a's inbox adds, and what the runner's own list has for a.
Inbox(a) == {<<m, "api">> : m \in {n \in delivered : to[n] = a}} \ consumed
Own(a) == {<<m, "kept">> : m \in {n \in kept : to[n] = a}} \ consumed
Schedulable(ids) == {i \in ids : i[1] \notin plain /\ about[i[1]] = phase}
FirstOf(ids) == CHOOSE i \in ids : \A j \in ids : i[1] <= j[1]
\* Mutant of MayTurn: off by one.
MayTurnOnce == spent <= MaxTurns /\ spentHere <= MaxPhaseTurns

MayTurn == spent < MaxTurns /\ spentHere < MaxPhaseTurns

\* One round of the loop, up to the execution: the inboxes that could be read
\* come first, agent by agent, then the runner's own list.  The turn shows
\* the agent all its mail (fetch_pending_mailbox_messages, a second read).
Pending(readable) ==
    LET open == {a \in readable : Schedulable(Inbox(a)) # {}}
        own  == Schedulable(UNION {Own(a) : a \in Present})
    IN  IF open # {} THEN {FirstOf(Schedulable(Inbox(a))) : a \in open}
        ELSE IF own # {} THEN {FirstOf(own)} ELSE {}

NextTurn ==
    /\ doing = "look" /\ MayTurn
    /\ \E readable \in SUBSET Present :
         \/ /\ Pending(readable) = {} /\ doing' = "quiet"
            /\ UNCHANGED <<target, shown, spent, spentHere>>
         \/ \E i \in Pending(readable), again \in BOOLEAN :
              LET a == to[i[1]] IN
              /\ target' = i /\ doing' = "turn"
              /\ shown' = {i} \cup Own(a) \cup (IF again THEN Inbox(a) ELSE {})
              /\ spent' = spent + 1 /\ spentHere' = spentHere + 1
    /\ UNCHANGED <<phase, kept, posted, delivered, late, to, about, plain, consumed, delegations,
                   hired, helpers, answered, unseen>>

LimitReached ==
    /\ doing = "look" /\ ~MayTurn /\ doing' = "halted"
    /\ UNCHANGED <<phase, kept, posted, delivered, late, to, about, plain, consumed, target, shown,
                   spent, spentHere, delegations, hired, helpers, answered, unseen>>

\* The execution failed: the loop ends, nothing is acknowledged.
TurnFails ==
    /\ doing = "turn" /\ doing' = "broken" /\ target' = NoId /\ shown' = {}
    /\ UNCHANGED <<phase, kept, posted, delivered, late, to, about, plain, consumed,
                   spent, spentHere, delegations, hired, helpers, answered, unseen>>

\* validate_reply_to: the message answered, the target unless the agent names
\* another, must be one of this conversation that the runner itself keeps.
KnownToReplies == \E m \in kept : about[m] = phase

\* A turn records at most one message here (the code: any number).
Silence == RecordNothing /\ UNCHANGED <<delegations, hired, helpers>>

\* A message of the agent's to another of the present.
Reply ==
    /\ KnownToReplies /\ \E a \in Present : Post(a, phase)
    /\ UNCHANGED <<delegations, hired, helpers>>

\* select_actor: one of those present that have what the task requires.
Select(able) == \E a \in able : Post(a, phase) /\ UNCHANGED <<hired, helpers>>

\* create_subagent: within the job's number, and never for a subagent
\* (max_depth is 1).  The helper is known to this conversation alone.
MayHire == Helpers # hired /\ to[target[1]] \in Speakers

Hire ==
    /\ MayHire
    /\ LET h == CHOOSE x \in Helpers : x \notin hired IN
         hired' = hired \cup {h} /\ helpers' = helpers \cup {h} /\ Post(h, phase)

\* A delegation beyond the limit, or that nobody can take, leaves nothing.
Delegate ==
    /\ delegations < MaxDelegations /\ delegations' = delegations + 1
    /\ \E able \in SUBSET Present : IF able # {} THEN Select(able) ELSE Hire

\* Run, failed or refused, a tool's result is a message to who asked for it.
ToolResult == Post(to[target[1]], phase) /\ UNCHANGED <<delegations, hired, helpers>>

Outgoing == Silence \/ Reply \/ Delegate \/ ToolResult

\* Mutant of Acknowledge: what only the runner keeps is not consumed.
AcknowledgeApiOnly(ids) ==
    /\ consumed' = consumed \cup {i \in ids : i[2] = "api"}
    /\ \E lost \in SUBSET {m \in delivered : <<m, "api">> \in ids} :
         delivered' = {m \in delivered : <<m, "api">> \in ids => m \in lost} \cup (posted' \ posted)
    /\ UNCHANGED unseen

\* Everything shown is consumed, and acknowledged at the API under the id the
\* runner knows; an acknowledgement may be lost.
Acknowledge(ids) ==
    /\ consumed' = consumed \cup ids
    /\ \E lost \in SUBSET {m \in delivered : <<m, "api">> \in ids} :
         delivered' = {m \in delivered : <<m, "api">> \in ids => m \in lost} \cup (posted' \ posted)
    /\ unseen' = unseen \cup {m \in kept : <<m, "kept">> \in ids /\ <<m, "api">> \notin ids \cup consumed}

TurnDone ==
    /\ doing = "turn" /\ doing' = "look"
    /\ Outgoing /\ Acknowledge(shown)
    /\ answered' = [answered EXCEPT ![target[1]] = @ + 1]
    /\ target' = NoId /\ shown' = {}
    /\ UNCHANGED <<phase, plain, spent, spentHere>>

\* The next phase: its agent reads its mail, runs, and consumes it; the
\* controller merges and records the handoff to the phase after.  (When it
\* fails, the conversation is over.)
NextPhase ==
    /\ doing \in {"quiet", "halted", "broken"} /\ phase + 1 \in DOMAIN PhaseAgents
    /\ phase' = phase + 1 /\ spentHere' = 0 /\ helpers' = {} /\ UNCHANGED <<target, shown>>
    /\ doing' = "look"
    /\ IF phase + 2 \in DOMAIN PhaseAgents
       THEN Post(PhaseAgents[phase + 2], phase + 1) /\ plain' = plain \cup {Fresh}
       ELSE RecordNothing /\ UNCHANGED plain
    /\ LET a == PhaseAgents[phase + 1] IN \E read \in BOOLEAN :
         Acknowledge(Own(a) \cup (IF read THEN Inbox(a) ELSE {}))
    /\ UNCHANGED <<spent, delegations, hired, answered>>

TalkStep == \/ NextTurn \/ LimitReached \/ TurnFails \/ TurnDone \/ NextPhase
            \/ \E a \in Speakers : Ask(a)
            \/ \E m \in late : Arrives(m)

TalkSpec == TalkInit /\ [][TalkStep]_talkVars

-----------------------------------------------------------------------------
\* A message is answered by one turn, although the runner sees it twice under
\* two ids: a second turn needs a mailbox that could not be read, or a post
\* that arrived late (run-hermes-sprint.py:1844, 2162).
TwiceOnlyUnseen == \A m \in Messages : answered[m] > 1 => m \in unseen
=============================================================================
