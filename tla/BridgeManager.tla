---------------------------- MODULE BridgeManager ----------------------------
(***************************************************************************)
(* The process-wide BridgeManager (n8n-nodes/src/BridgeManager.ts) for one *)
(* transport descriptor: triggers (UnoQTrigger.trigger and its             *)
(* closeFunction) acquire and release the shared Bridge, the Call and Tool *)
(* nodes borrow it with getBridge(), and the last release drains and       *)
(* closes it in the background.                                            *)
(*                                                                         *)
(* An entry is a JavaScript object: an acquire() that awaits keeps the one *)
(* it found, whatever happens to the map meanwhile.  Each action is one    *)
(* macrotask with the continuations it settles, in the order of their      *)
(* registration: release()'s own finally() runs before any acquire() that  *)
(* awaits the same promise.                                                *)
(***************************************************************************)
EXTENDS Integers, FiniteSets

CONSTANTS
  Requesters,     \* activations of a trigger in Request mode
  Notifiers,      \* activations of a trigger in Notification mode
  Borrowers,      \* items of executions of the Call and Tool nodes
  None

Triggers == Requesters \cup Notifiers
Users == Triggers \cup Borrowers

\* Objects are named for the user that makes them: a user opens at most one Bridge, and
\* makes at most one BridgeEntry in each of the calls of getEntry() on its way.
Bridges == Users
Entries == Users \X {"acquire", "addMethodRef", "removeMethodRef"}

ASSUME ManagerAssumption ==
  /\ Requesters \cap Notifiers = {} /\ Triggers \cap Borrowers = {}
  /\ None \notin Entries \cup Bridges
  /\ IsFiniteSet(Triggers)

VARIABLES
  current,      \* the entry in BridgeManager.entries
  entry,        \* the BridgeEntry objects
  conn,         \* of each Bridge: unused, connecting, open, closing or closed
  closesFor,    \* the entry whose release() closes a Bridge
  at,           \* where each user is: each comes once, and again as another one
  entryOf,      \* the entry a user found and goes on with after an await
  bridgeOf,     \* the Bridge a user awaits the close of, opens, or holds
  strayed       \* history: somebody went on with an entry that the map had dropped

managerVars == <<current, entry, conn, closesFor, at, entryOf, bridgeOf>>
vars == <<managerVars, strayed>>

Entry == [bridge : Bridges \cup {None}, refCount : Int, methodRefs : Nat,
          pendingClose : Bridges \cup {None}]

EmptyEntry == [bridge |-> None, refCount |-> 0, methodRefs |-> 0,
               pendingClose |-> None]

ManagerTypeOK ==
  /\ current \in Entries \cup {None}
  /\ entry \in [Entries -> Entry]
  /\ conn \in [Bridges -> {"unused", "connecting", "open", "closing", "closed"}]
  /\ closesFor \in [Bridges -> Entries \cup {None}]
  /\ at \in [Users -> {"idle", "waiting", "resumed", "connecting", "registering",
                       "active", "using", "gone"}]
  /\ entryOf \in [Users -> Entries \cup {None}]
  /\ bridgeOf \in [Users -> Bridges \cup {None}]

Init ==
  /\ current = None
  /\ entry = [e \in Entries |-> EmptyEntry]
  /\ conn = [b \in Bridges |-> "unused"]
  /\ closesFor = [b \in Bridges |-> None]
  /\ at = [u \in Users |-> "idle"]
  /\ entryOf = [u \in Users |-> None]
  /\ bridgeOf = [u \in Users |-> None]
  /\ strayed = FALSE

-----------------------------------------------------------------------------
(* The synchronous methods, as functions of the map and its entries:       *)
(* m.current, m.entry, and m.closes, the Bridge a release() starts to close. *)

Manager == [current |-> current, entry |-> entry, closes |-> None]

\* getEntry(), which makes the entry new if there is none.
GetEntry(m, new) ==
  IF m.current # None THEN m
  ELSE [m EXCEPT !.current = new, !.entry[new] = EmptyEntry]

\* Mutant: the ref is set instead of counted.
AddMethodRefOnce(m, u) ==
  LET n == GetEntry(m, <<u, "addMethodRef">>) IN [n EXCEPT !.entry[n.current].methodRefs = 1]

AddMethodRef(m, u) ==
  LET n == GetEntry(m, <<u, "addMethodRef">>) IN [n EXCEPT !.entry[n.current].methodRefs = @ + 1]

RemoveMethodRef(m, u) ==
  LET n == GetEntry(m, <<u, "removeMethodRef">>) IN
  [n EXCEPT !.entry[n.current].methodRefs = IF @ <= 1 THEN 0 ELSE @ - 1]

\* release() up to the background close of the last owner's Bridge.
Release(m) ==
  IF m.current = None THEN m
  ELSE LET e == m.current
           left == m.entry[e].refCount - 1
           old == m.entry[e].bridge
       IN  IF left <= 0 /\ old # None
           THEN [m EXCEPT !.entry[e].bridge = None,
                          !.entry[e].refCount = 0,
                          !.entry[e].pendingClose = old,
                          !.closes = old]
           ELSE [m EXCEPT !.entry[e].refCount = left]

\* entries.delete(key): whichever entry the map holds under the key.
Unused(x) == x.refCount = 0 /\ x.methodRefs = 0 /\ x.pendingClose = None

DeleteIf(m, unused) == IF unused THEN [m EXCEPT !.current = None] ELSE m

Set(m) ==
  /\ current' = m.current
  /\ entry' = m.entry
  /\ closesFor' = [b \in Bridges |-> IF b = m.closes THEN m.current ELSE closesFor[b]]

Closing(m, c) == [b \in Bridges |-> IF b = m.closes THEN "closing" ELSE c[b]]

-----------------------------------------------------------------------------
\* No continuation of an await is due.
Quiet == \A u \in Users : at[u] # "resumed"

Go(u, where, e, b) ==
  /\ at' = [at EXCEPT ![u] = where]
  /\ entryOf' = [entryOf EXCEPT ![u] = e]
  /\ bridgeOf' = [bridgeOf EXCEPT ![u] = b]

\* The user has its Bridge.  A trigger adds its method ref, and one in Request mode
\* gives up when it is not the first; the others go on to provide() or onNotify().
Obtain(u, m, b, c) ==
  IF u \in Borrowers
  THEN Set(m) /\ conn' = c /\ Go(u, "using", None, b)
  ELSE LET n == AddMethodRef(m, u) IN
       IF u \in Requesters /\ n.entry[n.current].methodRefs > 1
       THEN LET r == Release(RemoveMethodRef(n, u)) IN
            Set(r) /\ conn' = Closing(r, c) /\ Go(u, "gone", None, None)
       ELSE Set(n) /\ conn' = c /\ Go(u, "registering", None, b)

\* acquire() or getBridge() with an entry whose pendingClose it need not await:
\* only acquire() counts itself; a Bridge is opened unless there is one.
Enter(u, m, e) ==
  LET n == IF u \in Triggers THEN [m EXCEPT !.entry[e].refCount = @ + 1] ELSE m IN
  IF n.entry[e].bridge # None
  THEN Obtain(u, n, n.entry[e].bridge, conn)
  ELSE /\ Set(n)
       /\ conn' = [conn EXCEPT ![u] = "connecting"]
       /\ Go(u, "connecting", e, u)

\* acquire() or getBridge() is called.
Come(u) ==
  /\ Quiet /\ at[u] = "idle"
  /\ LET m == GetEntry(Manager, <<u, "acquire">>)
         e == m.current
         p == m.entry[e].pendingClose
     IN  IF p # None
         THEN Set(m) /\ Go(u, "waiting", e, p) /\ UNCHANGED conn
         ELSE Enter(u, m, e)

\* Mutant: only an entry that is still in the map is gone on with.
ResumeIfCurrent(u) ==
  /\ at[u] = "resumed" /\ entryOf[u] = current
  /\ Enter(u, Manager, entryOf[u])

\* Its await of pendingClose is over: it goes on with the entry it found before.
Resume(u) ==
  /\ at[u] = "resumed"
  /\ Enter(u, Manager, entryOf[u])

\* Bridge.connect() resolves.
ConnectSucceeds(u) ==
  /\ Quiet /\ at[u] = "connecting"
  /\ LET b == bridgeOf[u] IN
     Obtain(u, [Manager EXCEPT !.entry[entryOf[u]].bridge = b], b,
            [conn EXCEPT ![b] = "open"])

\* Mutant: a failed acquire() keeps its count.
ConnectFailsCounted(u) ==
  /\ Quiet /\ at[u] = "connecting"
  /\ conn' = [conn EXCEPT ![bridgeOf[u]] = "closed"]
  /\ Go(u, "gone", None, None)
  /\ UNCHANGED <<current, entry, closesFor>>

\* Bridge.connect() rejects: acquire() takes its count back, getBridge() just throws.
ConnectFails(u) ==
  /\ Quiet /\ at[u] = "connecting"
  /\ LET e == entryOf[u]
         m == [Manager EXCEPT !.entry[e].refCount = @ - 1]
     IN  Set(IF u \in Triggers THEN DeleteIf(m, Unused(m.entry[e])) ELSE Manager)
  /\ conn' = [conn EXCEPT ![bridgeOf[u]] = "closed"]
  /\ Go(u, "gone", None, None)

\* provide() or onNotify() resolves.
Registered(t) ==
  /\ Quiet /\ at[t] = "registering"
  /\ at' = [at EXCEPT ![t] = "active"]
  /\ UNCHANGED <<current, entry, conn, closesFor, entryOf, bridgeOf>>

\* provide() or onNotify() rejects, or an active trigger's closeFunction() runs.
Leave(t) ==
  /\ Quiet /\ t \in Triggers /\ at[t] \in {"registering", "active"}
  /\ LET m == Release(RemoveMethodRef(Manager, t)) IN
     Set(m) /\ conn' = Closing(m, conn)
  /\ Go(t, "gone", None, None)

\* The call of an item is settled; whether its execution goes on is the next item's.
Finish(u) ==
  /\ Quiet /\ at[u] = "using"
  /\ Go(u, "gone", None, None)
  /\ UNCHANGED <<current, entry, conn, closesFor>>

\* An item has no method or its parameters do not convert: it fails before it asks
\* for a Bridge.
ItemThrows(u) ==
  /\ Quiet /\ at[u] = "idle"
  /\ Go(u, "gone", None, None)
  /\ UNCHANGED <<current, entry, conn, closesFor>>

\* The background close of release() ends: its finally() forgets the promise and
\* the entry, then those who await it resume.
CloseDone(b) ==
  /\ Quiet /\ conn[b] = "closing"
  /\ conn' = [conn EXCEPT ![b] = "closed"]
  /\ LET e == closesFor[b]
         m == IF entry[e].pendingClose = b
              THEN [Manager EXCEPT !.entry[e].pendingClose = None] ELSE Manager
         n == DeleteIf(m, Unused(m.entry[e]) /\ m.entry[e].bridge = None)
     IN  /\ current' = n.current
         /\ entry' = n.entry
  /\ closesFor' = [closesFor EXCEPT ![b] = None]
  /\ at' = [u \in Users |-> IF at[u] = "waiting" /\ bridgeOf[u] = b
                            THEN "resumed" ELSE at[u]]
  /\ UNCHANGED <<entryOf, bridgeOf>>

Step ==
  \/ \E u \in Users : Come(u) \/ Resume(u) \/ ConnectSucceeds(u) \/ ConnectFails(u)
  \/ \E t \in Triggers : Registered(t) \/ Leave(t)
  \/ \E u \in Borrowers : Finish(u) \/ ItemThrows(u)
  \/ \E b \in Bridges : CloseDone(b)

Strays == \E u \in Users : /\ at[u] = "resumed" /\ at'[u] # "resumed"
                            /\ entryOf[u] # current

Next == Step /\ strayed' = (strayed \/ Strays)

Spec == Init /\ [][Next]_vars

\* A continuation that is due runs.  Nothing is assumed of the transport: an attempt to
\* connect may hang, and so may transport.close(), which ends no close() by itself.
FairManagerSpec == Spec /\ WF_managerVars(\E u \in Users : Resume(u))

-----------------------------------------------------------------------------
Owners == {t \in Triggers : at[t] \in {"connecting", "registering", "active"}}

\* A trigger that is active, or registering, has an open Bridge: the others' leaving
\* closes it only when the count "hits zero" (06-package-n8n-nodes.md 26), which is
\* that of the entry all triggers share, however they come and go (BridgeManager.ts
\* 29-36, 81-83).
ActiveTriggerServed ==
  \A t \in Triggers : at[t] \in {"registering", "active"} => conn[bridgeOf[t]] = "open"

\* Types; and refCount is the number of triggers that own the Bridge, and methodRefs that of
\* the ones that have got it (BridgeManager.ts 85-90, 175, 229-251).
OwnersCounted ==
  /\ ManagerTypeOK
  /\ ~strayed /\ Owners # {} => current # None
  /\ ~strayed /\ current # None =>
       /\ entry[current].refCount = Cardinality(Owners)
       /\ entry[current].methodRefs =
            Cardinality({t \in Owners : at[t] # "connecting"})

\* A method has one trigger in Request mode at most (UnoQTrigger.node.ts 169-184).
OneRequester ==
  ~strayed => Cardinality({t \in Requesters : at[t] \in {"registering", "active"}}) <= 1

\* Nobody waits for ever to get a Bridge, if attempts to connect and closes come to an
\* end: who awaits a pendingClose goes on, whatever became of its entry meanwhile
\* (BridgeManager.ts 81-84, 124-127, 207-224).
EveryComerIsServed ==
  /\ \A u \in Users : []<>(at[u] # "connecting")
  /\ \A b \in Bridges : []<>(conn[b] # "closing")
  => \A u \in Users : at[u] \in {"waiting", "connecting"}
                        ~> at[u] \notin {"waiting", "resumed", "connecting"}
=============================================================================
