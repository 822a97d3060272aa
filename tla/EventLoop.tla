------------------------------ MODULE EventLoop ------------------------------
(***************************************************************************)
(* src/lib: the channel map, the poll and the epoll dispatcher, and        *)
(* channel_event_activate.  The loop around dispatch and the calls of add, *)
(* del and update are left to a user of the library, who makes space in    *)
(* the map first, deletes a channel before its descriptor is closed, and   *)
(* calls in callbacks too.                                                 *)
(***************************************************************************)
EXTENDS Integers, FiniteSets, FiniteSetsExt

CONSTANTS MaxFd,   \* the largest descriptor
          Size,    \* POLL_INITIAL_SIZE
          Default, \* CHANNEL_MAP_DEFAULT_ENTRIES_SIZE
          MaxCalls, \* bound: calls of the user
          NoChannel

LoopAssumption ==
    /\ MaxFd \in Nat /\ Size \in Nat /\ Default \in Nat \ {0} /\ MaxCalls \in Nat
    /\ \A ev \in SUBSET {"read", "write"} : ev # NoChannel

Fd == 0 .. MaxFd
Slots == 0 .. Size - 1
Event == {"read", "write"}

VARIABLES dispatcher,    \* "poll" or "epoll", a macro decides
          available_num, \* the size of entries
          entries,       \* the events of the channel of each descriptor
          fds,           \* poll: fd and events of each slot
          revents,       \* poll: what of its revents is still to be handled
          ready_num,     \* poll: what poll returned, counted down
          calls,         \* callbacks of this slot that are still to be called
          phase,         \* "idle", "scan" or "callback"; for ever "crashed", "exited" or "cleared"
          interest,      \* epoll: the events of each descriptor in the kernel
          open, can,     \* the kernel's descriptors, and what each is ready for
          made, deleted, added   \* calls of the user, whether del was one, and adds

mapVars == <<available_num, entries>>
turnVars == <<revents, ready_num, calls, phase>>
kernelVars == <<open, can>>
userVars == <<made, deleted, added>>
vars == <<dispatcher, mapVars, fds, turnVars, interest, kernelVars, userVars>>

Init ==
    /\ dispatcher \in {"poll", "epoll"}
    /\ available_num = 0 /\ entries = [f \in Fd |-> NoChannel]
    /\ fds = [s \in Slots |-> [fd |-> -1, events |-> {}]]
    /\ revents = [s \in Slots |-> {}] /\ ready_num = 0 /\ calls = {} /\ phase = "idle"
    /\ interest = [f \in Fd |-> NoChannel]
    /\ open = {} /\ can = [f \in Fd |-> {}]
    /\ made = 0 /\ deleted = FALSE /\ added = 0

-----------------------------------------------------------------------------
(* add, del and update *)

\* What k doublings make of 1.
Power[k \in Nat] == IF k = 0 THEN 1 ELSE 2 * Power[k - 1]

\* map_make_space
Grown(slot) ==
    IF available_num > slot THEN available_num
    ELSE Min({n \in slot + 1 .. 2 * (slot + Default) :
                \E k \in 0 .. slot + 1 :
                    n = (IF available_num = 0 THEN Default ELSE available_num) * Power[k]})

Free == {s \in Slots : fds[s].fd < 0}
Of(f) == {s \in Slots : fds[s].fd = f}

\* && makes both bits of any events.
PollEvents(ev) == IF ev = {} THEN {} ELSE Event

\* A variable without an initial value, in which some bits get set.
Garbage(ev) == {g \in SUBSET Event : ev \subseteq g}

Call ==
    /\ phase \in {"idle", "callback"} /\ made < MaxCalls
    /\ made' = made + 1
    /\ UNCHANGED <<dispatcher, revents, ready_num, calls>>

PollAdd_NoBreak(f, ev) ==
    /\ dispatcher = "poll"
    /\ fds' = [s \in Slots |->
                 IF s \in Free THEN [fd |-> f, events |-> PollEvents(ev)] ELSE fds[s]]
    /\ UNCHANGED <<interest, phase>>

\* When every slot is used the channel gets none, and add returns 0.
PollAdd(f, ev) ==
    /\ dispatcher = "poll"
    /\ fds' = IF Free = {} THEN fds
              ELSE [fds EXCEPT ![Min(Free)] = [fd |-> f, events |-> PollEvents(ev)]]
    /\ UNCHANGED <<interest, phase>>

PollUpdate(f, ev) ==
    /\ dispatcher = "poll"
    /\ IF Of(f) = {} THEN UNCHANGED fds
       ELSE \E g \in Garbage(PollEvents(ev)) : fds' = [fds EXCEPT ![Min(Of(f))].events = g]
    /\ UNCHANGED <<interest, phase>>

\* -1 goes into events and not into fd: the slot stays used, for every event.
PollDel(f) ==
    /\ dispatcher = "poll"
    /\ fds' = IF Of(f) = {} THEN fds ELSE [fds EXCEPT ![Min(Of(f))].events = Event]
    /\ UNCHANGED <<interest, phase>>

EpollCtl(f, ok, values) ==
    /\ dispatcher = "epoll"
    /\ \/ ok /\ \E g \in values : interest' = [interest EXCEPT ![f] = g]
          /\ UNCHANGED phase
       \/ phase' = "exited" /\ UNCHANGED interest
    /\ UNCHANGED fds

\* With garbage in event.events epoll_ctl may refuse it as well.
EpollAdd(f, ev) == EpollCtl(f, interest[f] = NoChannel, Garbage(ev))
EpollUpdate(f, ev) == EpollCtl(f, interest[f] # NoChannel, Garbage(ev))

EpollDel(f) ==
    /\ dispatcher = "epoll"
    /\ interest' = [interest EXCEPT ![f] = NoChannel]
    /\ phase' = IF interest[f] = NoChannel THEN "exited" ELSE phase
    /\ UNCHANGED fds

\* For a new descriptor, the lowest, or one whose channel has been deleted.
Add(f, ev) ==
    /\ Call
    /\ \/ /\ f \in Fd \ open /\ \A g \in Fd \ open : f <= g
          /\ open' = open \cup {f} /\ can' = [can EXCEPT ![f] = {}]
       \/ f \in open /\ entries[f] = NoChannel /\ UNCHANGED kernelVars
    /\ available_num' = Grown(f) /\ entries' = [entries EXCEPT ![f] = ev]
    /\ PollAdd(f, ev) \/ EpollAdd(f, ev)
    /\ added' = added + 1 /\ UNCHANGED deleted

Update(f, ev) ==
    /\ Call /\ entries[f] # NoChannel
    /\ entries' = [entries EXCEPT ![f] = ev]
    /\ PollUpdate(f, ev) \/ EpollUpdate(f, ev)
    /\ UNCHANGED <<available_num, kernelVars, deleted, added>>

\* The channel is freed, and the descriptor closed or kept.
Delete(f) ==
    /\ Call /\ entries[f] # NoChannel
    /\ PollDel(f) \/ EpollDel(f)
    /\ entries' = [entries EXCEPT ![f] = NoChannel]
    /\ open' \in {open, open \ {f}}
    /\ deleted' = TRUE
    /\ UNCHANGED <<available_num, can, added>>

\* clear of the dispatcher, and map_clear.
Clear ==
    /\ phase = "idle"
    /\ phase' = "cleared"
    /\ available_num' = 0 /\ entries' = [f \in Fd |-> NoChannel]
    /\ fds' = [s \in Slots |-> [fd |-> -1, events |-> {}]]
    /\ interest' = [f \in Fd |-> NoChannel]
    /\ UNCHANGED <<dispatcher, revents, ready_num, calls, kernelVars, userVars>>

\* A descriptor gets ready, by event_loop_wakeup for one.
Arrive(f, e) ==
    /\ f \in open /\ e \notin can[f] /\ phase \in {"idle", "scan", "callback"}
    /\ can' = [can EXCEPT ![f] = @ \cup {e}]
    /\ UNCHANGED <<dispatcher, mapVars, fds, turnVars, interest, open, userVars>>

-----------------------------------------------------------------------------
(* dispatch *)

\* What poll reports of a slot: POLLNVAL for a descriptor that is closed.
Result(slot) ==
    IF slot.fd < 0 THEN {}
    ELSE IF slot.fd \notin open THEN {"invalid"} ELSE slot.events \cap can[slot.fd]

Reported == {s \in Slots : revents[s] # {}}
At == Min(Reported)

Poll ==
    /\ phase = "idle" /\ dispatcher = "poll"
    /\ revents' = [s \in Slots |-> Result(fds[s])]
    /\ ready_num' = Cardinality(Reported') /\ ready_num' > 0
    /\ phase' = "scan"
    /\ UNCHANGED <<dispatcher, mapVars, fds, calls, interest, kernelVars, userVars>>

Handled_CalledOnly ==
    /\ ready_num' = (IF phase = "callback" THEN ready_num - 1 ELSE ready_num)
    /\ revents' = [revents EXCEPT ![At] = {}]
    /\ phase' = IF ready_num' <= 0 \/ Reported' = {} THEN "idle" ELSE "scan"
    /\ calls' = {}

\* On to the next slot with revents, unless ready_num says that there is none.
Handled ==
    /\ ready_num' = ready_num - 1
    /\ revents' = [revents EXCEPT ![At] = {}]
    /\ phase' = IF ready_num' <= 0 \/ Reported' = {} THEN "idle" ELSE "scan"
    /\ calls' = {}

\* events is 0: nobody is told.
Invalid ==
    /\ phase = "scan" /\ revents[At] \cap Event = {}
    /\ Handled
    /\ UNCHANGED <<dispatcher, mapVars, fds, interest, kernelVars, userVars>>

\* channel_event_activate: entries[fd] is NULL when the channel has been deleted.
Activate ==
    /\ phase = "scan" /\ revents[At] \cap Event # {}
    /\ calls' = revents[At]
    /\ phase' = IF entries[fds[At].fd] = NoChannel THEN "crashed" ELSE "callback"
    /\ UNCHANGED <<dispatcher, mapVars, fds, revents, ready_num, interest, kernelVars, userVars>>

Called == IF "read" \in calls THEN "read" ELSE "write"

\* The callback has taken what was there and returns; the other one is called
\* through a pointer to a channel that the first may have freed.
Return ==
    /\ phase = "callback"
    /\ can' = [can EXCEPT ![fds[At].fd] = @ \ {Called}]
    /\ IF calls = {Called} THEN Handled
       ELSE /\ calls' = calls \ {Called} /\ UNCHANGED <<revents, ready_num>>
            /\ phase' \in IF entries[fds[At].fd] = NoChannel THEN {phase, "crashed"} ELSE {phase}
    /\ UNCHANGED <<dispatcher, mapVars, fds, interest, open, userVars>>

EpollDispatch_Ignore ==
    /\ phase = "idle" /\ dispatcher = "epoll"
    /\ \E f \in open : interest[f] # NoChannel /\ interest[f] \cap can[f] # {}
    /\ UNCHANGED vars

\* epoll_dispatch: events | EPOLLERR is never 0, so that every descriptor with
\* an event is closed and no callback called.
EpollDispatch ==
    LET ready == {f \in open : interest[f] # NoChannel /\ interest[f] \cap can[f] # {}}
    IN  /\ phase = "idle" /\ dispatcher = "epoll" /\ ready # {}
        /\ open' = open \ ready
        /\ interest' = [f \in Fd |-> IF f \in ready THEN NoChannel ELSE interest[f]]
        /\ UNCHANGED <<dispatcher, mapVars, fds, turnVars, can, userVars>>

-----------------------------------------------------------------------------

Loop == Poll \/ Invalid \/ Activate \/ Return \/ EpollDispatch

User(f) == Delete(f) \/ \E ev \in SUBSET Event : Add(f, ev) \/ Update(f, ev)

Next ==
    \/ Loop \/ Clear
    \/ \E f \in Fd : User(f) \/ \E e \in Event : Arrive(f, e)

Spec == Init /\ [][Next]_vars

\* The user calls dispatch again and again, and callbacks return.
Fairness == WF_vars(Loop)

-----------------------------------------------------------------------------
(* Properties *)

\* Every variable stays in its range.
TypeOK ==
    /\ available_num \in {0} \cup {Default * Power[k] : k \in 0 .. MaxFd + 1}
    /\ entries \in [Fd -> (SUBSET Event) \cup {NoChannel}]
    /\ \A f \in Fd : entries[f] # NoChannel => f < available_num
    /\ fds \in [Slots -> [fd : Fd \cup {-1}, events : SUBSET Event]]
    /\ revents \in [Slots -> (SUBSET Event) \cup {{"invalid"}}]
    /\ interest \in [Fd -> (SUBSET Event) \cup {NoChannel}]
    /\ open \subseteq Fd /\ can \in [Fd -> SUBSET Event]
    /\ phase \in {"idle", "scan", "callback", "crashed", "exited", "cleared"}

\* poll_dispatch handles every slot that poll reported exactly once, whatever
\* callbacks add, change and delete meanwhile: ready_num is the number of those
\* to come, and reaches 0 with the last one, not before and not after it.
EachReportedOnce ==
    /\ TypeOK
    /\ phase = "idle" => Reported = {}
    /\ phase \in {"scan", "callback"} => ready_num = Cardinality(Reported) /\ ready_num > 0

\* As long as no channel has been deleted the poll dispatcher only calls callbacks
\* whose event is there, from a snapshot though it is, and never crashes.  After
\* a deletion the slot lives on, and a second one with the same descriptor follows.
NoStaleCall ==
    deleted \/ /\ phase # "crashed"
               /\ phase = "callback" => Called \in can[fds[At].fd]

Ended == phase \in {"crashed", "exited", "cleared"}

\* A channel that waits for an event.
Due(f, e) == f \in open /\ entries[f] # NoChannel /\ e \in entries[f] /\ e \in can[f]

Over(f, e) == Ended \/ entries[f] = NoChannel \/ e \notin entries[f] \/ e \notin can[f]

\* A channel whose event is there is served in the end, unless more channels were
\* added, ever, than there are slots; by the epoll dispatcher with a close.
EventuallyDispatched ==
    \A f \in Fd, e \in Event :
        Due(f, e) ~> Over(f, e) \/ added > Size \/ f \notin open

\* event_dispatcher.h:27 of dispatch: it calls the callback by event_activate.
DispatchCallsBack ==
    \A f \in Fd, e \in Event : Due(f, e) ~> Over(f, e) \/ added > Size
==============================================================================
