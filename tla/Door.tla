--------------------------------- MODULE Door ----------------------------------
(***************************************************************************)
(* What a request to a host passes before it is answered: a connection     *)
(* slot (server/src/serve.rs), the limits on guessing at pairing secrets   *)
(* and at tokens (server/src/limits.rs), the check of its token            *)
(* (server/src/routes.rs).                                                 *)
(*                                                                         *)
(* Time passes in ticks.  A queue of instants is the set of the attempts   *)
(* they were pushed for, each with the tick it was made in and a number    *)
(* that tells it from the peer's others of that tick.                      *)
(***************************************************************************)
EXTENDS Naturals, FiniteSets

CONSTANTS
    Peers,
    Conns,          \* the connection slots (MAX_CONNECTIONS)
    PerPeer,        \* pairing attempts a peer has in a window
    Overall,        \* pairing attempts all peers have in a window
    MaxBad,         \* bad tokens a peer may send in a window
    Window,         \* the limits' window
    LockedFor,      \* how long a peer is locked out
    MaxTicks        \* bound on the ticks

\* One peer's attempts don't use up everyone's; a lockout outlasts the window.
LimitsAssumption ==
    /\ {PerPeer, Overall, MaxBad, Window, LockedFor} \subseteq Nat \ {0}
    /\ PerPeer < Overall /\ Window <= LockedFor
    /\ MaxTicks \in Nat /\ IsFiniteSet(Conns)

VARIABLES
    kind,       \* bound: what requests ask for, as the limits share nothing
    conn,       \* the connections
    now,        \* the time
    perPeer,    \* pairing attempts counted for each peer
    overall,    \* pairing attempts counted for all
    failures,   \* bad tokens counted for each peer
    locked,     \* until when each peer is locked out
    \* What happened, for the properties.
    tried,      \* pairing attempts that were let through
    guessed,    \* bad tokens of each peer that were looked up
    shut        \* the peer just refused for what all peers did

limits == <<perPeer, overall, failures, locked>>
vars == <<kind, conn, now, limits, tried, guessed, shut>>

Nobody == "nobody"
Closed == [pc |-> "closed", peer |-> Nobody]
Steps == {"closed", "handshake", "waiting", "token", "answering"}
Attempts == [peer : Peers, at : Nat, n : Nat]

TypeOK ==
    /\ kind \in {"token", "pairing"}
    /\ conn \in [Conns -> [pc : Steps, peer : Peers \cup {Nobody}]]
    /\ now \in 0..MaxTicks
    /\ perPeer \in [Peers -> SUBSET Attempts] /\ overall \subseteq Attempts
    /\ failures \in [Peers -> SUBSET Attempts]
    /\ locked \in [Peers -> 0..MaxTicks + LockedFor]
    /\ tried \subseteq Attempts /\ guessed \in [Peers -> SUBSET Attempts]
    /\ shut \in Peers \cup {Nobody}

Init ==
    /\ kind \in {"token", "pairing"}
    /\ conn = [c \in Conns |-> Closed]
    /\ now = 0
    /\ perPeer = [p \in Peers |-> {}] /\ overall = {}
    /\ failures = [p \in Peers |-> {}]
    /\ locked = [p \in Peers |-> 0]
    /\ tried = {} /\ guessed = [p \in Peers |-> {}]
    /\ shut = Nobody

(***************************************************************************)
(* RateLimit.                                                              *)
(***************************************************************************)

\* Those old enough are dropped, when the queue is next looked at.
Recent(queue) == {e \in queue : now < e.at + Window}
\* Variant: room for one more than there is.
HasRoomForOne(queue, max) == Cardinality(Recent(queue)) <= max

HasRoom(queue, max) == Cardinality(Recent(queue)) < max
Counted(queue, max, e) ==
    IF HasRoom(queue, max) THEN Recent(queue) \cup {e} ELSE Recent(queue)

\* Lockout.
IsLocked(p) == locked[p] > now
Fails(p, e) ==
    /\ failures' = [failures EXCEPT ![p] = Counted(@, MaxBad, e)]
    /\ locked' = [locked EXCEPT ![p] =
                      IF HasRoom(failures[p], MaxBad) THEN @ ELSE now + LockedFor]

\* A peer's next attempt: no other of this tick in its queue has this number.
Attempt(p, queue) == [peer |-> p, at |-> now, n |-> Cardinality(Recent(queue))]

(***************************************************************************)
(* Connections.                                                            *)
(***************************************************************************)

To(c, step) == conn' = [conn EXCEPT ![c].pc = step]

\* Without a slot the connection is dropped at once.  Peers outside
\* allow_from never get here.
Accept(c, p) ==
    /\ conn[c].pc = "closed"
    /\ conn' = [conn EXCEPT ![c] = [pc |-> "handshake", peer |-> p]]
    /\ shut' = Nobody
    /\ UNCHANGED <<kind, now, limits, tried, guessed>>

ShakesHands(c) ==
    /\ conn[c].pc = "handshake"
    /\ To(c, "waiting")
    /\ shut' = Nobody
    /\ UNCHANGED <<kind, now, limits, tried, guessed>>

\* The peer does, or what it sends takes too long to come (HANDSHAKE_TIMEOUT,
\* HEADER_TIMEOUT).
HangsUp(c) ==
    /\ conn[c].pc \in {"handshake", "waiting", "answering"}
    /\ conn' = [conn EXCEPT ![c] = Closed]
    /\ shut' = Nobody
    /\ UNCHANGED <<kind, now, limits, tried, guessed>>

(***************************************************************************)
(* Requests.                                                               *)
(***************************************************************************)

\* require_token: a peer that is locked out is refused; a lock that is over
\* is forgotten.
Asks(c) ==
    LET p == conn[c].peer IN
    /\ conn[c].pc = "waiting"
    /\ kind = "token"
    /\ IF IsLocked(p)
       THEN To(c, "answering") /\ UNCHANGED locked
       ELSE To(c, "token") /\ locked' = [locked EXCEPT ![p] = 0]
    /\ shut' = Nobody
    /\ UNCHANGED <<kind, now, perPeer, overall, failures, tried, guessed>>

\* The token is a client's.
GoodToken(c) ==
    /\ conn[c].pc = "token"
    /\ To(c, "answering")
    /\ shut' = Nobody
    /\ UNCHANGED <<kind, now, limits, tried, guessed>>

\* It is missing or isn't: a failure without room locks the peer out.
BadToken(c) ==
    LET p == conn[c].peer
        guess == Attempt(p, guessed[p]) IN
    /\ conn[c].pc = "token"
    /\ Fails(p, guess)
    /\ guessed' = [guessed EXCEPT ![p] = Recent(@) \cup {guess}]
    /\ To(c, "answering")
    /\ shut' = Nobody
    /\ UNCHANGED <<kind, now, perPeer, overall, tried>>

\* pair: the peer's limit is looked at before everyone's.
MayPair(p) == HasRoom(perPeer[p], PerPeer) /\ HasRoom(overall, Overall)

Pairs(c) ==
    LET p == conn[c].peer
        attempt == Attempt(p, perPeer[p]) IN
    /\ conn[c].pc = "waiting" /\ kind = "pairing"
    /\ perPeer' = [perPeer EXCEPT ![p] = Counted(@, PerPeer, attempt)]
    /\ overall' = IF HasRoom(perPeer[p], PerPeer)
                  THEN Counted(overall, Overall, attempt) ELSE overall
    /\ tried' = IF MayPair(p) THEN Recent(tried) \cup {attempt} ELSE tried
    /\ shut' = IF HasRoom(perPeer[p], PerPeer) /\ ~MayPair(p) THEN p ELSE Nobody
    /\ To(c, "answering")
    /\ UNCHANGED <<kind, now, failures, locked, guessed>>

Answered(c) ==
    /\ conn[c].pc = "answering"
    /\ To(c, "waiting")
    /\ shut' = Nobody
    /\ UNCHANGED <<kind, now, limits, tried, guessed>>

(***************************************************************************)
(* Time.                                                                   *)
(***************************************************************************)

\* What is too old now, or over, is dropped or forgotten by who looks next.
Tick ==
    /\ now < MaxTicks
    /\ now' = now + 1
    /\ shut' = Nobody
    /\ UNCHANGED <<kind, conn, limits, tried, guessed>>

Next ==
    \/ \E c \in Conns :
         \/ \E p \in Peers : Accept(c, p)
         \/ ShakesHands(c) \/ HangsUp(c)
         \/ Asks(c) \/ GoodToken(c) \/ BadToken(c) \/ Pairs(c) \/ Answered(c)
    \/ Tick

Spec == Init /\ [][Next]_vars

(***************************************************************************)
(* Properties.                                                             *)
(***************************************************************************)

\* However a peer spreads its guesses over connections and over time, it has
\* PerPeer attempts at pairing in any window, and all peers together Overall;
\* and MaxBad guesses at a token, with one more on each connection: those that
\* passed the check before it was locked out.
GuessesBounded ==
    /\ \A p \in Peers : Cardinality({e \in Recent(tried) : e.peer = p}) <= PerPeer
    /\ Cardinality(Recent(tried)) <= Overall
    /\ \A p \in Peers : Cardinality(Recent(guessed[p])) <= MaxBad + Cardinality(Conns)

\* A peer is locked out only after more than MaxBad guesses in one window; and a
\* peer that has attempts at pairing left is refused only for attempts of others
\* that were let through: one that keeps trying can't keep others from pairing.
LockDeserved ==
    /\ \A p \in Peers : locked[p] = now + LockedFor =>
          Cardinality(Recent(guessed[p])) > MaxBad
    /\ shut # Nobody =>
          Cardinality({e \in Recent(tried) : e.peer # shut}) + PerPeer > Overall
================================================================================
