---------------------------- MODULE LiveEntryInv -----------------------------
(***************************************************************************)
(* The inductive invariants behind the properties of LiveEntry.  IInv is   *)
(* for one runner on a connection that may drop.  The others are for a     *)
(* socket that stays up: EndedInv whoever runs, TraderInv for one trader   *)
(* among any number of runners, LockInv for one runner whose disk may      *)
(* fail.                                                                   *)
(***************************************************************************)
EXTENDS LiveEntry

\* Pcs of a leg: before the lock is written, before and after the order is sent.
BeforeSend == {"acquire", "planned", "execute"}
AfterSend  == {"audit", "submitted", "record", "mark"}
InRun      == BeforeSend \cup AfterSend \cup {"preflight", "leg"}

\* An attempt nobody took has left no trace.
UnusedIsBlank ==
    \A a \in Attempts : symbol[a] = None => broker[a] = "none" /\ trade[a] = "none"

\* An event is pending while it is in the bridge or in the hands of a runner.
Pending(e) == e \in fillEvents \/ \E r \in Runners : e \in events[r]

\* What is reported of exits is so: pending events, filled ids, cached statuses.
ExitsTrue ==
    /\ \A a \in Attempts : Pending(Fill("exit", a)) => broker[a] = "flat"
    /\ \A a \in exitIds : broker[a] = "flat"
    /\ \A a \in Attempts : Fill("exit", a) \in statusLog => broker[a] = "flat"

\* So is what is reported of rejections; with the socket down there is nothing to
\* report.
EventsTrue ==
    /\ ExitsTrue
    /\ \A a \in rejectedIds : broker[a] = "refused"
    /\ ~connected => fillEvents = {}

\* An exit is only sent for a trade whose entry fill is recorded.
ExitsPriced == \A a \in Attempts : trade[a] = "EXIT_PENDING" => a \in priced

\* Past the grace an entry no longer works, and a fill the bridge has not handed
\* over yet belongs to a position it has cached.
GraceMeansSettled ==
    \A a \in aged :
        /\ trade[a] # "none"
        /\ broker[a] # "working"
        /\ broker[a] = "held" /\ Fill("entry", a) \in fillEvents => a \in pos[symbol[a]]

\* Only aged trades become orphans, and no fill is on its way that would take
\* the orphan of a live position for an ordinary entry.
OrphansAreQuiet ==
    \A a \in Attempts :
        \/ life[a] = "ORPHANED_ORDER"
        \/ \E r \in Runners : \/ pc[r] = "orphan" /\ leg[r] = a
                              \/ pc[r] \in {"stale", "orphan"} /\ a \in todo[r]
        => /\ a \in aged
           /\ Exposed(a) => ~Pending(Fill("entry", a))

\* What a reconciliation pass has read still holds when it writes.
PassesCurrent ==
    \A r \in Runners :
        /\ pc[r] # "ingest" => events[r] = {}
        /\ pc[r] = "rejects" => \A a \in todo[r] : broker[a] = "refused"
        /\ pc[r] = "exits" => \A a \in todo[r] : broker[a] = "flat"
        /\ pc[r] = "orphan" => leg[r] \in Attempts
        /\ pc[r] = "release" => \A s \in keys[r] :
                                    locks[s].trade # None /\ Terminal(locks[s].trade)

\* A run starts when no orphan is left and makes none; from the lock on, the leg
\* is alone on its symbol, and until the trade is marked the lock is its own.
RunsAlone ==
    \A r \in Runners :
        /\ pc[r] \in InRun => \A a \in Attempts : life[a] # "ORPHANED_ORDER"
        /\ pc[r] \in BeforeSend \cup AfterSend =>
              /\ leg[r] \in Attempts
              /\ symbol[leg[r]] \in Symbols
              /\ \A b \in Attempts :
                    b # leg[r] /\ symbol[b] = symbol[leg[r]] => ~Exposed(b)
        /\ pc[r] \in BeforeSend => broker[leg[r]] = "none" /\ trade[leg[r]] = "none"
        /\ pc[r] \in (BeforeSend \cup AfterSend) \ {"acquire"} =>
              locks[symbol[leg[r]]] = [status |-> "IN_FLIGHT", trade |-> None]
        /\ pc[r] \in {"audit", "submitted", "record"} => trade[leg[r]] = "none"
        /\ pc[r] = "mark" => trade[leg[r]] # "none"

IInv == /\ UnusedIsBlank
        /\ EventsTrue
        /\ ExitsPriced
        /\ GraceMeansSettled
        /\ OrphansAreQuiet
        /\ PassesCurrent
        /\ RunsAlone
        /\ ExposureIsCovered
        /\ NoDuplicateLiveEntry
-----------------------------------------------------------------------------
InLeg == BeforeSend \cup AfterSend

\* Every leg is an attempt of its own, one that was not sent left no trace, and
\* only a trader runs legs.
LegInv ==
    /\ UnusedIsBlank
    /\ \A r \in Runners : \A a \in todo[r] : trade[a] # "none"
    /\ \A r \in Runners : pc[r] \in InLeg => leg[r] \in Attempts /\ symbol[leg[r]] # None
    /\ \A r \in Runners :
          pc[r] \in BeforeSend => broker[leg[r]] = "none" /\ trade[leg[r]] = "none"
    /\ \A r, q \in Runners :
          r # q /\ pc[r] \in InLeg /\ pc[q] \in InLeg => leg[r] # leg[q]
    /\ \A r \in Runners \ Traders : pc[r] \notin InRun

\* A refusal is final, and what is told or read of refusals is so.
FailedInv ==
    /\ ExitsPriced
    /\ \A a \in rejectedIds : broker[a] = "refused"
    /\ \A r \in Runners : pc[r] = "rejects" => \A a \in todo[r] : broker[a] = "refused"
    /\ \A a \in Attempts : trade[a] = "FAILED" => broker[a] = "refused"

\* On a socket that stays up, an aged trade that is held is in the cached
\* positions.
StaleInv ==
    /\ connected
    /\ \A a \in aged : /\ trade[a] # "none"
                       /\ broker[a] # "working"
                       /\ broker[a] = "held" => a \in pos[symbol[a]]
    /\ \A r \in Runners : pc[r] \in {"stale", "orphan"} => \A a \in todo[r] : ~Exposed(a)

\* On such a socket a trade that has ended has nothing left at the broker.
EndedInv ==
    /\ ExitsTrue
    /\ \A r \in Runners : pc[r] = "exits" => \A a \in todo[r] : broker[a] = "flat"
    /\ EndedTradesAreFlat

\* A leg is alone on its symbol.
LegAlone(r) ==
    pc[r] \in InLeg => \A b \in Attempts :
        b # leg[r] /\ symbol[b] = symbol[leg[r]] => ~Exposed(b)

\* One trader: what is at the broker is OPEN in the store, or it is the leg in hand.
TraderInv ==
    /\ \A a \in Attempts : trade[a] # "EXIT_PENDING"
    /\ \A a \in Attempts : Exposed(a) /\ trade[a] = "none" =>
          \E r \in Traders : pc[r] \in {"audit", "submitted", "record"} /\ leg[r] = a
    /\ \A r \in Traders : LegAlone(r)
    /\ NoDuplicateLiveEntry

\* One runner: what is at the broker has the lock of its symbol.
LockInv ==
    /\ \A r \in Runners : pc[r] = "release" =>
          \A s \in keys[r] : locks[s].trade # None /\ Terminal(locks[s].trade)
    /\ \A a \in Attempts : Exposed(a) =>
          Active(symbol[a]) /\ locks[symbol[a]].trade \in {None, a}
    /\ \A r \in Runners : LegAlone(r)
    /\ \A r \in Runners : pc[r] \in InLeg \ {"acquire"} =>
          locks[symbol[leg[r]]] = [status |-> "IN_FLIGHT", trade |-> None]
    /\ NoDuplicateLiveEntry
===============================================================================
