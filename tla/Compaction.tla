----------------------------- MODULE Compaction -----------------------------
(***************************************************************************)
(* Context compaction: core/compact.  A background task summarises the     *)
(* front of the conversation with an LLM call and then splices the summary *)
(* in place of what it read, while the agent's turn keeps appending to,    *)
(* rewriting, rescuing and dropping from the same conversation.            *)
(*                                                                         *)
(* A message is its identity and what the code looks at: `body` names what *)
(* was said, `gen` the Python object that carries it (rebuilding a         *)
(* conversation makes new objects), `ver` its text (0 as written, 1 after  *)
(* an in-place rewrite), `calls` the tool calls it announces, `answers`    *)
(* the call a tool result answers, `covers` what a summary stands for.     *)
(* Positions are 1-based: the boundary b of the code, messages[1:b], is    *)
(* positions 2..b here.                                                    *)
(***************************************************************************)
EXTENDS Naturals, FiniteSets, Sequences

CONSTANTS
    KeepTurns,       \* keep_recent_turns
    MinCompactable,  \* count_keep_messages.MIN_COMPACTABLE (8 in the code)
    Calls,           \* the calls of one native tool round
    MaxBodies,       \* bound: messages said
    MaxFlights,      \* bound: compactions started
    MaxSwitches,     \* bound: /branch commands
    HookShared       \* the summariser's provider carries the rescue hook

ASSUME CompactionAssumption ==
    /\ KeepTurns \in Nat \ {0} /\ MinCompactable \in Nat \ {0}
    /\ Calls # {} /\ MaxBodies \in Nat /\ MaxFlights \in Nat
    /\ MaxSwitches \in Nat /\ HookShared \in BOOLEAN

VARIABLES
    conv,     \* controller.conversation._messages
    room,     \* which Conversation object the controller holds
    gen,      \* how often the messages were rebuilt as new objects
    made,     \* bodies used so far
    turn,     \* the agent's turn
    running,  \* SingleFlightDispatch._running
    token,    \* SingleFlightDispatch._token: the flights started
    active,   \* CompactManager._compact_task (0: None)
    flights,  \* the compaction tasks
    stop,     \* Agent.stop() at CompactManager.cancel(): no, cancelling, done
    live      \* ghost: what the conversation must stand for

vars == <<conv, room, gen, made, turn, running, token, active, flights, stop, live>>

Flights == 1..MaxFlights
NoCall == <<0, 0>>
Stages == {"none", "new", "meta", "veto", "llm", "ownWait", "flush", "persist", "done"}

Said(body, role) ==
    [body |-> body, gen |-> gen, ver |-> 0, role |-> role,
     calls |-> {}, answers |-> NoCall, covers |-> {}]

IsText(m) == m.role \in {"user", "assistant"} /\ m.calls = {} /\ m.covers = {}

\* What a sequence of messages stands for: the words in it, and those its summaries replace.
StandsFor(c) ==
    {<<c[i].body, c[i].ver>> : i \in {k \in DOMAIN c : IsText(c[k])}}
        \cup UNION {c[i].covers : i \in DOMAIN c}

Latest(S) == CHOOSE x \in S : \A y \in S : y <= x

-----------------------------------------------------------------------------
(* Conversation.sanitize_orphan_tool_pairs.                                *)

\* The last message that is not a tool result; its calls are the pending tail.
LastTalk(c) == Latest({i \in DOMAIN c : c[i].role # "tool"})

Observed(c, i) ==
    {c[j].answers : j \in {k \in (i + 1)..Len(c) :
        /\ c[k].role = "tool"
        /\ \A h \in (i + 1)..k : c[h].role \notin {"user", "assistant"}}}

KeptCalls(c, i, protected) == c[i].calls \cap (Observed(c, i) \cup protected)

Survives(c, i, protected) ==
    /\ c[i].calls # {} => KeptCalls(c, i, protected) # {}
    /\ c[i].role = "tool" =>
           \E j \in 1..(i - 1) : c[i].answers \in KeptCalls(c, j, protected)

\* The k-th smallest of the numbers S.
Nth(S, k) == CHOOSE i \in S : Cardinality({j \in S : j <= i}) = k

Sanitized(c, protected) ==
    LET kept == {i \in DOMAIN c : Survives(c, i, protected)}
    IN  [k \in 1..Cardinality(kept) |->
            [c[Nth(kept, k)] EXCEPT !.calls = KeptCalls(c, Nth(kept, k), protected)]]

\* What the next request sends: an unanswered announcement is rejected by providers.
Request(c) == Sanitized(c, {})

-----------------------------------------------------------------------------
(* Where the summary may end: splice.select_compact_boundary.              *)

Users(c, i) == {k \in i..Len(c) : c[k].role = "user"}

KeepMessages(c) ==
    LET n == Len(c)
        whole == {i \in 1..n : Cardinality(Users(c, i)) >= KeepTurns}
        capped(k) == IF k < n - 1 THEN k ELSE n - 1
    IN  IF n <= 1 THEN 0
        ELSE IF whole # {} THEN capped(n - Latest(whole) + 1)
        ELSE IF n < MinCompactable THEN n - 1
        ELSE capped(n \div 2)

\* A boundary is safe when no tool result would open the part that is kept.
HeadIsTool(c, b) == b < Len(c) /\ c[b + 1].role = "tool"

TurnBoundary(c) ==
    LET n == Len(c)
        b == n - KeepMessages(c)
        open == {k \in 1..b : k = 1 \/ ~HeadIsTool(c, k)}
    IN  IF open = {} THEN b ELSE Latest(open)

\* Mutant of PendingStart: a round under way is cut like any other.
NothingPends(c) == Len(c)

\* Start of a tool round that still waits for results, or the end of the list.
PendingStart(c) ==
    LET p == LastTalk(c)
    IN  IF p > 1 /\ ~(c[p].calls \subseteq Observed(c, p)) THEN p - 1 ELSE Len(c)

\* The code shortens the live zone to a token budget; where that falls is data.
TokenBoundaries(c) ==
    LET pending == PendingStart(c)
        safe == {k \in 1..Len(c) : ~HeadIsTool(c, k)}
    IN  {k \in safe : k < pending} \cup {pending}

Boundaries(c) ==
    LET b == TurnBoundary(c)
    IN  {b} \cup {k \in TokenBoundaries(c) : k > b}

-----------------------------------------------------------------------------
(* splice.splice_conversation and what the manager does around it.         *)

Zone(c, b) == SubSeq(c, 2, b)

\* Mutant of SpliceFits: the object at the boundary is compared, not the text read.
FitsByIdentity(f) ==
    LET fl == flights[f] IN
    /\ fl.boundary <= Len(conv)
    /\ conv[fl.boundary].body = fl.taken[Len(fl.taken)].body
    /\ ~HeadIsTool(conv, fl.boundary)

SpliceFits(f) ==
    LET fl == flights[f] IN
    /\ fl.boundary <= Len(conv)
    /\ Zone(conv, fl.boundary) = fl.taken   \* the same objects, the same text
    /\ ~HeadIsTool(conv, fl.boundary)

Summary(f) ==
    [Said(0, "assistant") EXCEPT !.covers = StandsFor(flights[f].taken)]

RetainedUser(f) ==
    LET zone == flights[f].taken
        users == {i \in DOMAIN zone : zone[i].role = "user"}
    IN  IF flights[f].keepUser /\ users # {} THEN <<zone[Latest(users)]>> ELSE <<>>

Spliced(f) ==
    LET c == <<conv[1], Summary(f)>> \o RetainedUser(f)
                 \o SubSeq(conv, flights[f].boundary + 1, Len(conv))
    IN  Sanitized(c, c[LastTalk(c)].calls)

\* arguments.after_compact: results older than the latest round become stubs, in place.
Elided(c) ==
    [i \in DOMAIN c |-> IF c[i].role = "tool" /\ i < LastTalk(c)
                        THEN [c[i] EXCEPT !.ver = 1] ELSE c[i]]

NoFlight == [stage |-> "none", room |-> 0, boundary |-> 0, taken |-> <<>>,
             keepUser |-> FALSE, cancelled |-> FALSE, flushCut |-> FALSE, said |-> <<>>]

NoTurn == [phase |-> "idle", left |-> {}, request |-> <<>>,
           tried |-> FALSE, dropped |-> FALSE, waits |-> 0]

Asking(c) == [NoTurn EXCEPT !.phase = "asking", !.request = Request(c)]

Init ==
    /\ conv = <<[body |-> 0, gen |-> 0, ver |-> 0, role |-> "system",
                 calls |-> {}, answers |-> NoCall, covers |-> {}]>>
    /\ room = 1 /\ gen = 0 /\ made = 0
    /\ turn = NoTurn
    /\ running = FALSE /\ token = 0 /\ active = 0
    /\ flights = [f \in Flights |-> NoFlight]
    /\ stop = "no"
    /\ live = {}

manager == <<running, token, active, flights, stop>>
source == <<room, gen>>

-----------------------------------------------------------------------------
(* The turn.                                                               *)

Speak(m, standing) ==
    /\ conv' = Append(conv, m)
    /\ live' = live \cup standing

\* Controller.run_once: the user's message and the request built from the list.
UserSays ==
    /\ turn.phase = "idle" /\ stop = "no" /\ made < MaxBodies
    /\ made' = made + 1
    /\ Speak(Said(made + 1, "user"), {<<made + 1, 0>>})
    /\ turn' = Asking(conv')
    /\ UNCHANGED <<source, manager>>

\* A text reply is recorded, then the post-call plugins run on it.
Reply ==
    /\ turn.phase = "asking" /\ made < MaxBodies
    /\ made' = made + 1
    /\ Speak(Said(made + 1, "assistant"), {<<made + 1, 0>>})
    /\ turn' = [NoTurn EXCEPT !.phase = "hooks"]
    /\ UNCHANGED <<source, manager>>

\* run_post_llm_call_chain: a plugin may have rewritten the recorded message in place.
HooksEnd ==
    /\ turn.phase = "hooks"
    /\ \E rewritten \in BOOLEAN :
          LET hit == {i \in DOMAIN conv : rewritten /\ conv[i].body = made /\ IsText(conv[i])}
          IN  /\ conv' = [i \in DOMAIN conv |->
                            IF i \in hit THEN [conv[i] EXCEPT !.ver = 1] ELSE conv[i]]
              /\ live' = IF hit = {} THEN live
                         ELSE (live \ {<<made, 0>>}) \cup {<<made, 1>>}
    /\ turn' = NoTurn
    /\ UNCHANGED <<source, made, manager>>

\* A native reply that only calls tools: the announcement is recorded before any runs.
Announce ==
    /\ turn.phase = "asking" /\ made < MaxBodies
    /\ made' = made + 1
    /\ LET calls == {<<made + 1, k>> : k \in Calls} IN
          /\ conv' = Append(conv, [Said(made + 1, "assistant") EXCEPT !.calls = calls])
          /\ turn' = [NoTurn EXCEPT !.phase = "tools", !.left = calls]
    /\ UNCHANGED <<source, live, manager>>

\* dispatch._add_native_results, or the placeholder of a promoted call.
Result(c) ==
    /\ turn.phase = "tools" /\ c \in turn.left
    /\ conv' = Append(conv, [Said(0, "tool") EXCEPT !.answers = c])
    /\ turn' = [turn EXCEPT !.left = @ \ {c}]
    /\ UNCHANGED <<source, made, live, manager>>

NextRound ==
    /\ turn.phase = "tools" /\ turn.left = {}
    /\ turn' = Asking(conv)
    /\ UNCHANGED <<conv, source, made, live, manager>>

\* An error or an interrupt ends the turn where it is; calls may stay unanswered.
TurnFails ==
    /\ turn.phase \in {"asking", "tools"}
    /\ turn' = NoTurn
    /\ UNCHANGED <<conv, source, made, live, manager>>

-----------------------------------------------------------------------------
(* Compaction is started: CompactManager.trigger_compact.                  *)

CanTrigger ==
    /\ ~running /\ token < MaxFlights /\ stop = "no"
    /\ \E b \in Boundaries(conv) : b > 1

\* Mutant of Started: the lease does not take a token of its own.
StartedUnnumbered ==
    /\ running' = TRUE
    /\ active' = token + 1
    /\ flights' = [flights EXCEPT ![token + 1].stage = "new"]
    /\ UNCHANGED <<token, stop>>

Started ==
    /\ running' = TRUE
    /\ token' = token + 1
    /\ active' = token + 1
    /\ flights' = [f \in Flights |->
          [NoFlight EXCEPT !.stage = IF f = token + 1 THEN "new"
                                     ELSE IF f <= token THEN "done" ELSE "none"]]
    /\ UNCHANGED stop

\* The token threshold after a model call, the compact plugin, or /compact.
TriggerCompact ==
    /\ CanTrigger
    /\ Started
    /\ UNCHANGED <<conv, source, made, turn, live>>

-----------------------------------------------------------------------------
(* The provider refuses an oversized request: _recover_from_overflow.      *)

\* The hook joins the compaction in flight, or starts one and waits for it.
OverflowRescue ==
    /\ turn.phase = "asking" /\ ~turn.tried
    /\ \/ running /\ UNCHANGED manager
       \/ CanTrigger /\ Started
    /\ turn' = [turn EXCEPT !.phase = "rescue", !.tried = TRUE, !.waits = active']
    /\ UNCHANGED <<conv, source, made, live>>

\* drop_last_tool_round on the request that was refused.
LastAsk(c) == Latest({i \in DOMAIN c : c[i].calls # {}})
RoundEnd(c) == Latest({i \in LastAsk(c)..Len(c) :
                          \A k \in (LastAsk(c) + 1)..i : c[k].role = "tool"})
Dropped(c, placeholder) ==
    SubSeq(c, 1, LastAsk(c) - 1) \o <<placeholder>> \o SubSeq(c, RoundEnd(c) + 1, Len(c))

\* The emergency drop, replayed on the conversation with new message objects.
DropOrFail(refused) ==
    IF ~turn.dropped /\ \E i \in DOMAIN refused : refused[i].calls # {}
    THEN /\ gen' = gen + 1
         /\ LET note == Said(MaxBodies + gen + 1, "user")
                c == Dropped(refused, note)
            IN  /\ conv' = [i \in DOMAIN c |-> [c[i] EXCEPT !.gen = gen + 1]]
                /\ live' = live \cup {<<note.body, 0>>}
                /\ turn' = [turn EXCEPT !.phase = "asking", !.request = conv',
                                        !.tried = TRUE, !.dropped = TRUE, !.waits = 0]
    ELSE /\ turn' = NoTurn
         /\ UNCHANGED <<conv, gen, live>>

\* Nothing runs and nothing can be compacted, or a compaction was already tried.
OverflowDrop ==
    /\ turn.phase = "asking"
    /\ turn.tried \/ (~running /\ \E b \in Boundaries(conv) : b <= 1)
    /\ DropOrFail(turn.request)
    /\ UNCHANGED <<room, made, manager>>

\* wait_for_current returns; a rescue that did not shrink the request is not used.
RescueReturns ==
    /\ turn.phase = "rescue" /\ flights[turn.waits].stage = "done"
    /\ IF Len(Request(conv)) < Len(turn.request)
       THEN /\ turn' = [turn EXCEPT !.phase = "asking", !.request = Request(conv), !.waits = 0]
            /\ UNCHANGED <<conv, gen, live>>
       ELSE DropOrFail(turn.request)
    /\ UNCHANGED <<room, made, manager>>

-----------------------------------------------------------------------------
(* The compaction task: CompactManager._run_compact.                       *)

At(f, stage) == flights[f].stage = stage /\ ~flights[f].cancelled

Go(f, stage) == flights' = [flights EXCEPT ![f].stage = stage]

\* The finally block: the terminal, the lease, the task reference.
Finish(f, said) ==
    /\ flights' = [flights EXCEPT ![f] =
          [NoFlight EXCEPT !.stage = "done", !.said = flights[f].said \o said,
                           !.cancelled = flights[f].cancelled,
                           !.flushCut = (flights[f].stage = "flush" /\ said # <<>>)]]
    /\ running' = IF token = f THEN FALSE ELSE running
    /\ active' = 0
    /\ UNCHANGED <<token, stop>>

KeepsLease == UNCHANGED <<running, token, active, stop>>
Aside == UNCHANGED <<conv, source, made, turn, live>>

Capture(f) ==
    /\ At(f, "new")
    /\ \E b \in Boundaries(conv) :
          \/ /\ b <= 1
             /\ Finish(f, <<"skipped">>)
          \/ /\ b > 1
             /\ flights' = [flights EXCEPT ![f] = [@ EXCEPT
                    !.stage = "meta", !.room = room, !.boundary = b,
                    !.taken = Zone(conv, b), !.keepUser = (b > TurnBoundary(conv))]]
             /\ KeepsLease
    /\ Aside

\* Mutant of Vetoed: the veto closes nothing.
VetoedSilently(f) == At(f, "veto") /\ Finish(f, <<>>) /\ Aside

MetadataRead(f) == At(f, "meta") /\ Go(f, "veto") /\ KeepsLease /\ Aside
Proceed(f) == At(f, "veto") /\ Go(f, "llm") /\ KeepsLease /\ Aside
Vetoed(f) == At(f, "veto") /\ Finish(f, <<"skipped">>) /\ Aside

\* The event log cannot be read, or the summary call fails or returns nothing.
Fails(f) ==
    /\ At(f, "meta") \/ At(f, "llm")
    /\ Finish(f, <<"skipped">>)
    /\ Aside

\* Mutant of RescueIsOwn: the task that calls is not looked at.
NeverOwn(f) == FALSE

\* _compact_overflow_rescue called from inside the summary call.
RescueIsOwn(f) == active = f

SummarizerOverflows(f) ==
    /\ HookShared /\ At(f, "llm")
    /\ IF RescueIsOwn(f) THEN Finish(f, <<"skipped">>)
                         ELSE Go(f, "ownWait") /\ KeepsLease
    /\ Aside

\* Mutant of IsReplaced: the captured conversation is taken for the live one.
NeverReplaced(f) == FALSE

IsReplaced(f) == flights[f].room # room

ConversationReplaced(f) ==
    /\ At(f, "llm") /\ IsReplaced(f)
    /\ Finish(f, <<"skipped">>)
    /\ Aside

SpliceRefused(f) ==
    /\ At(f, "llm") /\ ~IsReplaced(f) /\ ~SpliceFits(f)
    /\ Finish(f, <<"skipped">>)
    /\ Aside

\* Splice, elide and announce completion run without giving way.
Splice(f) ==
    /\ At(f, "llm") /\ ~IsReplaced(f)
    /\ flights[f].room = room => SpliceFits(f)
    /\ conv' = IF flights[f].room = room THEN Elided(Spliced(f)) ELSE conv
    /\ flights' = [flights EXCEPT ![f].stage = "flush", ![f].said = Append(@, "complete")]
    /\ KeepsLease
    /\ UNCHANGED <<source, made, turn, live>>

Flushed(f) == At(f, "flush") /\ Go(f, "persist") /\ KeepsLease /\ Aside
FlushFails(f) == At(f, "flush") /\ Finish(f, <<"skipped">>) /\ Aside
Persisted(f) == At(f, "persist") /\ Finish(f, <<>>) /\ Aside

\* CancelledError reaches the task at the await it is in.
Cancelled(f) ==
    /\ flights[f].cancelled /\ flights[f].stage \notin {"new", "done"}
    /\ Finish(f, IF flights[f].stage = "persist" THEN <<>> ELSE <<"skipped">>)
    /\ Aside

FlightStep(f) ==
    \/ Capture(f) \/ MetadataRead(f) \/ Proceed(f) \/ Vetoed(f) \/ Fails(f)
    \/ SummarizerOverflows(f) \/ ConversationReplaced(f) \/ SpliceRefused(f) \/ Splice(f)
    \/ Flushed(f) \/ FlushFails(f) \/ Persisted(f) \/ Cancelled(f)

-----------------------------------------------------------------------------
(* Others.                                                                 *)

\* /branch: the controller gets a Conversation rebuilt from the event log.
SwitchBranch ==
    /\ turn.phase = "idle" /\ stop = "no" /\ room <= MaxSwitches
    /\ \E n \in 1..Len(conv) :
          conv' = [i \in 1..n |-> [conv[i] EXCEPT !.gen = gen + 1]]
    /\ gen' = gen + 1
    /\ room' = room + 1
    /\ live' = StandsFor(conv')
    /\ UNCHANGED <<made, turn, manager>>

\* rewind_to: refused while a turn or a compaction runs.
Rewind ==
    /\ turn.phase = "idle" /\ ~running /\ stop = "no"
    /\ \E n \in 1..(Len(conv) - 1) : conv' = SubSeq(conv, 1, n)
    /\ live' = StandsFor(conv')
    /\ UNCHANGED <<source, made, turn, manager>>

\* Agent.stop has cancelled the turn; cancel() cancels the task and waits for it.
\* A task cancelled before its first step never runs, and so has no finally.
Stop ==
    /\ stop = "no"
    /\ stop' = "cancelling"
    /\ turn' = NoTurn
    /\ flights' = [f \in Flights |->
          IF f # active \/ flights[f].stage = "done" THEN flights[f]
          ELSE IF flights[f].stage = "new"
               THEN [flights[f] EXCEPT !.stage = "done", !.cancelled = TRUE]
          ELSE [flights[f] EXCEPT !.cancelled = TRUE]]
    /\ UNCHANGED <<conv, source, made, live, running, token, active>>

ForceRelease == running' = FALSE

StopReturns ==
    /\ stop = "cancelling"
    /\ active # 0 => flights[active].stage = "done"
    /\ ForceRelease
    /\ active' = 0
    /\ stop' = "done"
    /\ UNCHANGED <<conv, source, made, turn, live, token, flights>>

Turn ==
    \/ UserSays \/ Reply \/ HooksEnd \/ Announce \/ NextRound \/ TurnFails
    \/ OverflowRescue \/ OverflowDrop \/ RescueReturns
    \/ \E c \in turn.left : Result(c)

Next ==
    \/ Turn
    \/ TriggerCompact
    \/ \E f \in Flights : FlightStep(f)
    \/ SwitchBranch \/ Rewind
    \/ Stop \/ StopReturns

Spec == Init /\ [][Next]_vars

\* The event loop runs what is ready, and a summary call answers or fails.
Fairness ==
    /\ WF_vars(\E f \in Flights : FlightStep(f))
    /\ WF_vars(RescueReturns)
    /\ WF_vars(StopReturns)

FairSpec == Spec /\ Fairness
-----------------------------------------------------------------------------
(* Properties.                                                             *)

IsLive(f) == flights[f].stage \notin {"none", "done"}

\* Every variable has its type.
TypeOK ==
    /\ \A i \in DOMAIN conv :
          /\ conv[i].role \in {"system", "user", "assistant", "tool"}
          /\ conv[i].ver \in 0..1 /\ conv[i].gen \in 0..gen
          /\ conv[i].calls \subseteq ((1..MaxBodies) \X Calls)
    /\ room \in 1..(MaxSwitches + 1) /\ gen \in Nat
    /\ made \in 0..MaxBodies
    /\ turn.phase \in {"idle", "asking", "rescue", "hooks", "tools"}
    /\ turn.waits \in {0} \cup Flights
    /\ running \in BOOLEAN /\ token \in 0..MaxFlights /\ active \in 0..token
    /\ \A f \in Flights :
          /\ flights[f].stage \in Stages
          /\ (flights[f].stage = "none") <=> (f > token)
    /\ stop \in {"no", "cancelling", "done"}

\* What was said and not taken back is in the conversation or in a summary of it,
\* and no summary stands for words that were since rewritten or dropped: the
\* splice checks the list it summarised against the list it replaces
\* (compact/splice.py), whatever the turn, the emergency drop, a plugin rewrite,
\* a rewind or a branch switch did while the summary was written.
NothingLost == StandsFor(conv) = live

\* A tool result in the list follows the message that announced its call, with
\* only results in between, and the calls a turn still waits for are announced by
\* the last message that is not a result: providers reject a list without it, so
\* neither the boundary nor the pruning may separate a round that is under way.
RoundsStayWhole ==
    /\ \A i \in DOMAIN conv : conv[i].role = "tool" =>
          \E j \in 1..(i - 1) :
             /\ conv[i].answers \in conv[j].calls
             /\ \A k \in (j + 1)..i : conv[k].role = "tool"
    /\ turn.left # {} =>
          turn.left = conv[LastTalk(conv)].calls \ Observed(conv, LastTalk(conv))

\* Every compaction that was announced is closed by one terminal, unless stop()
\* cancelled it or the store failed under the announcement of its completion.
OneTerminalUnlessCut ==
    token > 0 =>
       LET last == flights[token]
       IN  last.stage = "done" /\ ~last.cancelled /\ ~last.flushCut => Len(last.said) = 1

\* Completion is announced only when the controller's own conversation was spliced:
\* it now opens with a summary of what was captured.
CompleteMeansCompacted ==
    [][\A f \in Flights :
          Len(flights'[f].said) > Len(flights[f].said)
             /\ flights'[f].said[Len(flights'[f].said)] = "complete"
          => /\ Len(conv') >= 2
             /\ conv'[2].covers = StandsFor(flights[f].taken)]_vars

\* A compaction ends, a turn that waits for one goes on, and stop() returns, also
\* when the summary call itself overflows and reaches the hook that waits for it.
Waiting ==
    \/ \E f \in Flights : IsLive(f)
    \/ turn.phase = "rescue"
    \/ stop = "cancelling"

EveryWaitEnds == Waiting ~> ~Waiting
=============================================================================
