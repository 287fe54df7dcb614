-------------------------- MODULE BridgeManagerProofs --------------------------
(***************************************************************************)
(* The safety properties of BridgeManager, for any number of triggers and  *)
(* of items that borrow the Bridge.                                        *)
(***************************************************************************)
EXTENDS BridgeManager, FiniteSetTheorems, TLAPS

USE ManagerAssumption DEF Bridges

\* What the synchronous methods work on.
ManagerRecord ==
  [current : Entries \cup {None}, entry : [Entries -> Entry], closes : Bridges \cup {None}]

\* Types; those who await something know what, and a close knows its entry.
ManagerTypes ==
  /\ ManagerTypeOK
  /\ \A u \in Users :
       /\ at[u] \in {"waiting", "resumed", "connecting"} => entryOf[u] \in Entries
       /\ at[u] = "connecting" => bridgeOf[u] = u
  /\ \A b \in Bridges : conn[b] = "closing" => closesFor[b] \in Entries

\* The owners that have got the Bridge.
Served == {t \in Triggers : at[t] \in {"registering", "active"}}

\* The counts of the entry in the map are those of the owners; without one, nobody owns.
CountsExact ==
  /\ current = None => Owners = {}
  /\ current # None => /\ entry[current].refCount = Cardinality(Owners)
                       /\ entry[current].methodRefs = Cardinality(Served)

\* Owners go on with the entry in the map.  It is the one that a Bridge is closed for, and
\* then nobody owns it; when the waiters resume, that close is over.
OneEntry ==
  /\ \A t \in Triggers : at[t] = "connecting" => entryOf[t] = current
  /\ \A b \in Bridges : conn[b] = "closing" =>
       current # None /\ closesFor[b] = current /\ entry[current].pendingClose = b
  /\ current # None /\ entry[current].pendingClose # None => Owners = {}
  /\ current # None /\ entry[current].pendingClose # None => Quiet

\* A Bridge is not touched before its user opens it, nor closed while it is somebody's.
BridgesOpen ==
  /\ \A u \in Users : /\ at[u] \in {"idle", "waiting", "resumed"} => conn[u] = "unused"
                      /\ at[u] = "connecting" => conn[u] = "connecting"
  /\ \A t \in Served : bridgeOf[t] \in Bridges /\ conn[bridgeOf[t]] = "open"
  /\ current # None /\ entry[current].bridge # None => conn[entry[current].bridge] = "open"

\* No two triggers in Request mode are served.
RequestersExclude ==
  \A s, t \in Requesters : s \in Served /\ t \in Served => s = t

\* As long as nobody has gone on with an entry that the map had dropped.
Straight == CountsExact /\ OneEntry /\ BridgesOpen /\ RequestersExclude

ManagerInv == ManagerTypes /\ strayed \in BOOLEAN /\ (~strayed => Straight)

-----------------------------------------------------------------------------
(* What the synchronous methods give *)

\* The users and the objects that they make.
LEMMA NewObjects ==
  /\ \A u \in Users : /\ <<u, "acquire">> \in Entries
                      /\ <<u, "addMethodRef">> \in Entries
                      /\ <<u, "removeMethodRef">> \in Entries
  /\ Triggers \subseteq Users /\ Requesters \subseteq Triggers
  /\ Users \ Triggers = Borrowers /\ Borrowers \subseteq Users
  /\ None \notin Users /\ None \notin Entries
BY DEF Entries, Users, Triggers

\* getEntry() gives the entry of the map, or a new one.
LEMMA GetEntryGives ==
  ASSUME NEW m \in ManagerRecord, NEW new \in Entries
  PROVE  LET n == GetEntry(m, new) IN
         /\ n \in ManagerRecord /\ n.current # None /\ n.closes = m.closes
         /\ m.current # None => n = m
         /\ m.current = None => n.entry[n.current] = EmptyEntry
<1>1. CASE m.current # None
  BY <1>1 DEF GetEntry
<1>2. CASE m.current = None
  <2>1. GetEntry(m, new) = [current |-> new, entry |-> [m.entry EXCEPT ![new] = EmptyEntry],
                            closes |-> m.closes]
    BY <1>2 DEF GetEntry, ManagerRecord
  <2>2. EmptyEntry \in Entry
    BY DEF EmptyEntry, Entry
  <2>3. [m.entry EXCEPT ![new] = EmptyEntry] \in [Entries -> Entry]
    BY <2>2 DEF ManagerRecord
  <2> QED
    BY <1>2, <2>1, <2>2, <2>3, NewObjects DEF ManagerRecord
<1> QED
  BY <1>1, <1>2

\* addMethodRef() counts one more, and changes nothing else of the entry.
LEMMA AddMethodRefGives ==
  ASSUME NEW m \in ManagerRecord, NEW u \in Users
  PROVE  LET n == AddMethodRef(m, u) IN
         /\ n \in ManagerRecord /\ n.current # None /\ n.closes = m.closes
         /\ m.current # None =>
              /\ n.current = m.current
              /\ n.entry[n.current] = [m.entry[m.current] EXCEPT !.methodRefs = @ + 1]
<1> PICK g : g = GetEntry(m, <<u, "addMethodRef">>)
  OBVIOUS
<1>1. /\ g \in ManagerRecord /\ g.current # None /\ g.closes = m.closes
      /\ m.current # None => g = m
  BY GetEntryGives, NewObjects
<1>2. AddMethodRef(m, u) = [g EXCEPT !.entry[g.current].methodRefs = @ + 1]
  BY DEF AddMethodRef
<1>3. g.current \in Entries /\ g.entry[g.current] \in Entry
  BY <1>1 DEF ManagerRecord
<1> PICK x : x = [g.entry[g.current] EXCEPT !.methodRefs = @ + 1]
  OBVIOUS
<1>4. x \in Entry
  BY <1>3 DEF Entry
<1>5. AddMethodRef(m, u) = [current |-> g.current, entry |-> [g.entry EXCEPT ![g.current] = x],
                            closes |-> g.closes]
  BY <1>1, <1>2 DEF ManagerRecord
<1>6. [g.entry EXCEPT ![g.current] = x] \in [Entries -> Entry]
  BY <1>1, <1>4 DEF ManagerRecord
<1> QED
  BY <1>1, <1>3, <1>4, <1>5, <1>6 DEF ManagerRecord

\* removeMethodRef() takes one off, if there is one.
LEMMA RemoveMethodRefGives ==
  ASSUME NEW m \in ManagerRecord, NEW u \in Users
  PROVE  LET n == RemoveMethodRef(m, u) IN
         /\ n \in ManagerRecord /\ n.current # None /\ n.closes = m.closes
         /\ m.current # None /\ m.entry[m.current].methodRefs > 0 =>
              /\ n.current = m.current
              /\ n.entry[n.current] = [m.entry[m.current] EXCEPT !.methodRefs = @ - 1]
<1> PICK g : g = GetEntry(m, <<u, "removeMethodRef">>)
  OBVIOUS
<1>1. /\ g \in ManagerRecord /\ g.current # None /\ g.closes = m.closes
      /\ m.current # None => g = m
  BY GetEntryGives, NewObjects
<1>2. RemoveMethodRef(m, u) =
        [g EXCEPT !.entry[g.current].methodRefs = IF @ <= 1 THEN 0 ELSE @ - 1]
  BY DEF RemoveMethodRef
<1>3. g.current \in Entries /\ g.entry[g.current] \in Entry
  BY <1>1 DEF ManagerRecord
<1> PICK x : x = [g.entry[g.current] EXCEPT !.methodRefs = IF @ <= 1 THEN 0 ELSE @ - 1]
  OBVIOUS
<1>4. /\ x \in Entry
      /\ g.entry[g.current].methodRefs > 0
         => x = [g.entry[g.current] EXCEPT !.methodRefs = @ - 1]
  BY <1>3 DEF Entry
<1>5. RemoveMethodRef(m, u) = [current |-> g.current, entry |-> [g.entry EXCEPT ![g.current] = x],
                               closes |-> g.closes]
  BY <1>1, <1>2 DEF ManagerRecord
<1>6. [g.entry EXCEPT ![g.current] = x] \in [Entries -> Entry]
  BY <1>1, <1>4 DEF ManagerRecord
<1> QED
  BY <1>1, <1>3, <1>4, <1>5, <1>6 DEF ManagerRecord

\* release() counts one owner less; the last one's closes the Bridge, if there is one.
LEMMA ReleaseGives ==
  ASSUME NEW m \in ManagerRecord, m.closes = None
  PROVE  LET n == Release(m)
             c == m.current
         IN
         /\ n \in ManagerRecord
         /\ n.closes # None => n.current # None
         /\ c # None =>
              /\ n.current = c
              /\ \/ /\ m.entry[c].refCount > 1 \/ m.entry[c].bridge = None
                    /\ n.closes = None
                    /\ n.entry[c] = [m.entry[c] EXCEPT !.refCount = @ - 1]
                 \/ /\ m.entry[c].refCount <= 1 /\ m.entry[c].bridge # None
                    /\ n.closes = m.entry[c].bridge
                    /\ n.entry[c] = [bridge |-> None, refCount |-> 0,
                                     methodRefs |-> m.entry[c].methodRefs,
                                     pendingClose |-> m.entry[c].bridge]
<1>1. CASE m.current = None
  BY <1>1 DEF Release
<1>2. CASE m.current # None
  <2> PICK c : c = m.current
    OBVIOUS
  <2>1. c \in Entries /\ m.entry[c] \in Entry
    BY <1>2 DEF ManagerRecord
  <2>2. CASE m.entry[c].refCount - 1 <= 0 /\ m.entry[c].bridge # None
    <3>1. Release(m) = [m EXCEPT !.entry[c].bridge = None,
                                 !.entry[c].refCount = 0,
                                 !.entry[c].pendingClose = m.entry[c].bridge,
                                 !.closes = m.entry[c].bridge]
      BY <1>2, <2>2 DEF Release
    <3> PICK y : y = m.entry[c]
      OBVIOUS
    <3> PICK x : x = [bridge |-> None, refCount |-> 0, methodRefs |-> y.methodRefs,
                      pendingClose |-> y.bridge]
      OBVIOUS
    <3>2. y.bridge \in Bridges /\ y.refCount <= 1
      BY <2>1, <2>2 DEF Entry
    <3>3. x \in Entry
      BY <2>1, <3>2 DEF Entry
    <3>4. m = [current |-> c, entry |-> m.entry, closes |-> None]
      BY DEF ManagerRecord
    <3>5. Release(m) = [current |-> c, entry |-> Release(m).entry, closes |-> y.bridge]
      BY <3>1, <3>4
    <3>6. Release(m).entry = [m.entry EXCEPT ![c] = x]
      <4>1. Release(m).entry = [[[m.entry EXCEPT ![c].bridge = None]
                                   EXCEPT ![c].refCount = 0] EXCEPT ![c].pendingClose = y.bridge]
        BY <3>1, <3>4
      <4> QED
        BY <2>1, <4>1 DEF ManagerRecord, Entry
    <3>7. [m.entry EXCEPT ![c] = x] \in [Entries -> Entry]
      BY <3>3 DEF ManagerRecord
    <3>8. Release(m) \in ManagerRecord
      BY <1>2, <2>1, <3>2, <3>5, <3>6, <3>7 DEF ManagerRecord
    <3>9. Release(m).entry[c] = x
      BY <2>1, <3>6 DEF ManagerRecord
    <3> QED
      BY <1>2, <2>1, <2>2, <3>2, <3>5, <3>8, <3>9
  <2>3. CASE ~(m.entry[c].refCount - 1 <= 0 /\ m.entry[c].bridge # None)
    <3>1. Release(m) = [m EXCEPT !.entry[c].refCount = m.entry[c].refCount - 1]
      BY <1>2, <2>3 DEF Release
    <3> PICK x : x = [m.entry[c] EXCEPT !.refCount = @ - 1]
      OBVIOUS
    <3>2. x \in Entry
      BY <2>1 DEF Entry
    <3>3. Release(m) = [current |-> c, entry |-> [m.entry EXCEPT ![c] = x], closes |-> None]
      BY <2>1, <3>1 DEF ManagerRecord
    <3>4. [m.entry EXCEPT ![c] = x] \in [Entries -> Entry]
      BY <3>2 DEF ManagerRecord
    <3>5. m.entry[c].refCount > 1 \/ m.entry[c].bridge = None
      BY <2>1, <2>3 DEF Entry
    <3> QED
      BY <1>2, <2>1, <3>2, <3>3, <3>4, <3>5 DEF ManagerRecord
  <2> QED
    BY <2>2, <2>3
<1> QED
  BY <1>1, <1>2

\* A deletion takes the entry out of the map.
LEMMA DeleteIfGives ==
  ASSUME NEW m \in ManagerRecord, NEW unused \in BOOLEAN
  PROVE  LET n == DeleteIf(m, unused) IN
         /\ n \in ManagerRecord /\ n.entry = m.entry /\ n.closes = m.closes
         /\ n.current = IF unused THEN None ELSE m.current
<1>1. [m EXCEPT !.current = None] = [current |-> None, entry |-> m.entry, closes |-> m.closes]
  BY DEF ManagerRecord
<1> QED
  BY <1>1 DEF DeleteIf, ManagerRecord

-----------------------------------------------------------------------------
(* The types *)

Conns == {"unused", "connecting", "open", "closing", "closed"}
Places == {"idle", "waiting", "resumed", "connecting", "registering", "active", "using", "gone"}

\* What is set is of its type, and the Bridge that is closed has an entry.
LEMMA SetTypes ==
  ASSUME ManagerTypes, NEW m \in ManagerRecord, Set(m), m.closes # None => m.current # None,
         NEW c \in [Bridges -> Conns], conn' = Closing(m, c),
         \A b \in Bridges : c[b] = "closing" => conn[b] = "closing"
  PROVE  /\ current' \in Entries \cup {None}
         /\ entry' \in [Entries -> Entry]
         /\ conn' \in [Bridges -> Conns]
         /\ closesFor' \in [Bridges -> Entries \cup {None}]
         /\ \A b \in Bridges : conn'[b] = "closing" => closesFor'[b] \in Entries
BY DEF ManagerTypes, ManagerTypeOK, ManagerRecord, Set, Closing, Conns

\* When no Bridge is closed, none gets an entry, nor changes otherwise than by c.
LEMMA NothingCloses ==
  ASSUME ManagerTypes, NEW m \in ManagerRecord, m.closes = None,
         NEW c \in [Bridges -> Conns]
  PROVE  Closing(m, c) = c /\ (Set(m) => closesFor' = closesFor)
BY NewObjects DEF Closing, Set, ManagerTypes, ManagerTypeOK

\* A user that goes somewhere with what the place needs.
LEMMA GoTypes ==
  ASSUME ManagerTypes, NEW u \in Users, NEW w \in Places, NEW e \in Entries \cup {None},
         NEW b \in Bridges \cup {None}, Go(u, w, e, b),
         w \in {"waiting", "resumed", "connecting"} => e \in Entries,
         w = "connecting" => b = u
  PROVE  /\ at' \in [Users -> Places]
         /\ entryOf' \in [Users -> Entries \cup {None}]
         /\ bridgeOf' \in [Users -> Bridges \cup {None}]
         /\ \A v \in Users :
              /\ at'[v] \in {"waiting", "resumed", "connecting"} => entryOf'[v] \in Entries
              /\ at'[v] = "connecting" => bridgeOf'[v] = v
BY DEF ManagerTypes, ManagerTypeOK, Go, Places

\* A step that sets the map and moves a user keeps the types.
LEMMA StepTypes ==
  ASSUME ManagerTypes, NEW m \in ManagerRecord, Set(m), m.closes # None => m.current # None,
         NEW c \in [Bridges -> Conns], conn' = Closing(m, c),
         \A x \in Bridges : c[x] = "closing" => conn[x] = "closing",
         NEW u \in Users, NEW w \in Places, NEW e \in Entries \cup {None},
         NEW b \in Bridges \cup {None}, Go(u, w, e, b),
         w \in {"waiting", "resumed", "connecting"} => e \in Entries,
         w = "connecting" => b = u
  PROVE  ManagerTypes'
<1>1. /\ current' \in Entries \cup {None}
      /\ entry' \in [Entries -> Entry]
      /\ conn' \in [Bridges -> Conns]
      /\ closesFor' \in [Bridges -> Entries \cup {None}]
      /\ \A x \in Bridges : conn'[x] = "closing" => closesFor'[x] \in Entries
  BY SetTypes
<1>2. /\ at' \in [Users -> Places]
      /\ entryOf' \in [Users -> Entries \cup {None}]
      /\ bridgeOf' \in [Users -> Bridges \cup {None}]
      /\ \A v \in Users :
           /\ at'[v] \in {"waiting", "resumed", "connecting"} => entryOf'[v] \in Entries
           /\ at'[v] = "connecting" => bridgeOf'[v] = v
  BY GoTypes
<1> QED
  BY <1>1, <1>2 DEF ManagerTypes, ManagerTypeOK, Conns, Places

\* Getting a Bridge keeps the types.
LEMMA ObtainTypes ==
  ASSUME ManagerTypes, NEW u \in Users, NEW m \in ManagerRecord, m.closes = None,
         NEW b \in Bridges, NEW c \in [Bridges -> Conns], Obtain(u, m, b, c),
         \A x \in Bridges : c[x] = "closing" => conn[x] = "closing"
  PROVE  ManagerTypes'
<1> USE DEF Places
<1>1. CASE u \in Borrowers
  <2>1. Set(m) /\ conn' = c /\ Go(u, "using", None, b)
    BY <1>1 DEF Obtain
  <2> QED
    BY <2>1, StepTypes, NothingCloses
<1>2. CASE u \notin Borrowers
  <2> PICK n : n = AddMethodRef(m, u)
    OBVIOUS
  <2>1. n \in ManagerRecord /\ n.closes = None /\ n.current # None
    BY AddMethodRefGives
  <2>2. CASE u \in Requesters /\ n.entry[n.current].methodRefs > 1
    <3> PICK k : k = RemoveMethodRef(n, u)
      OBVIOUS
    <3>1. k \in ManagerRecord /\ k.closes = None
      BY <2>1, RemoveMethodRefGives
    <3> PICK r : r = Release(k)
      OBVIOUS
    <3>2. r \in ManagerRecord /\ (r.closes # None => r.current # None)
      BY <3>1, ReleaseGives
    <3>3. Set(r) /\ conn' = Closing(r, c) /\ Go(u, "gone", None, None)
      BY <1>2, <2>2 DEF Obtain
    <3> QED
      BY <3>2, <3>3, StepTypes
  <2>3. CASE ~(u \in Requesters /\ n.entry[n.current].methodRefs > 1)
    <3>1. Set(n) /\ conn' = c /\ Go(u, "registering", None, b)
      BY <1>2, <2>3 DEF Obtain
    <3> QED
      BY <2>1, <3>1, StepTypes, NothingCloses
  <2> QED
    BY <2>2, <2>3
<1> QED
  BY <1>1, <1>2

\* So does going on with an entry.
LEMMA EnterTypes ==
  ASSUME ManagerTypes, NEW u \in Users, NEW m \in ManagerRecord, m.closes = None,
         NEW e \in Entries, Enter(u, m, e)
  PROVE  ManagerTypes'
<1> PICK n : n = IF u \in Triggers THEN [m EXCEPT !.entry[e].refCount = @ + 1] ELSE m
  OBVIOUS
<1>1. n \in ManagerRecord /\ n.closes = None
  <2>1. CASE u \in Triggers
    <3> PICK x : x = [m.entry[e] EXCEPT !.refCount = @ + 1]
      OBVIOUS
    <3>1. x \in Entry
      BY DEF ManagerRecord, Entry
    <3>2. n = [current |-> m.current, entry |-> [m.entry EXCEPT ![e] = x], closes |-> None]
      BY <2>1 DEF ManagerRecord
    <3>3. [m.entry EXCEPT ![e] = x] \in [Entries -> Entry]
      BY <3>1 DEF ManagerRecord
    <3> QED
      BY <3>2, <3>3 DEF ManagerRecord
  <2> QED
    BY <2>1
<1>2. conn \in [Bridges -> Conns] /\ n.entry[e].bridge \in Bridges \cup {None}
  BY <1>1 DEF ManagerTypes, ManagerTypeOK, Conns, ManagerRecord, Entry
<1>3. CASE n.entry[e].bridge # None
  <2>1. Obtain(u, n, n.entry[e].bridge, conn)
    BY <1>3 DEF Enter
  <2> QED
    BY <1>1, <1>2, <1>3, <2>1, ObtainTypes
<1>4. CASE n.entry[e].bridge = None
  <2> PICK c : c = [conn EXCEPT ![u] = "connecting"]
    OBVIOUS
  <2>1. Set(n) /\ conn' = c /\ Go(u, "connecting", e, u)
    BY <1>4 DEF Enter
  <2>2. c \in [Bridges -> Conns] /\ \A b \in Bridges : c[b] = "closing" => conn[b] = "closing"
    BY <1>2 DEF Conns
  <2> QED
    BY <1>1, <2>1, <2>2, StepTypes, NothingCloses DEF Places
<1> QED
  BY <1>3, <1>4

\* And every step.
LEMMA TypesStep ==
  ASSUME ManagerTypes, Step
  PROVE  ManagerTypes'
<1> USE DEF Places
<1> PICK mgr : mgr = Manager
  OBVIOUS
<1>1. mgr \in ManagerRecord /\ mgr.closes = None /\ mgr.current = current /\ mgr.entry = entry
  BY DEF Manager, ManagerRecord, ManagerTypes, ManagerTypeOK
<1>2. conn \in [Bridges -> Conns]
  BY DEF ManagerTypes, ManagerTypeOK, Conns
<1>3. ASSUME NEW u \in Users, Come(u)
      PROVE  ManagerTypes'
  <2> PICK m : m = GetEntry(mgr, <<u, "acquire">>)
    OBVIOUS
  <2>1. m \in ManagerRecord /\ m.closes = None /\ m.current # None
    BY <1>1, GetEntryGives, NewObjects
  <2>2. m.current \in Entries /\ m.entry[m.current].pendingClose \in Bridges \cup {None}
    BY <2>1 DEF ManagerRecord, Entry
  <2>3. CASE m.entry[m.current].pendingClose # None
    <3>1. /\ Set(m) /\ conn' = conn
          /\ Go(u, "waiting", m.current, m.entry[m.current].pendingClose)
      BY <1>3, <2>3 DEF Come
    <3> QED
      BY <1>2, <2>1, <2>2, <3>1, StepTypes, NothingCloses
  <2>4. CASE m.entry[m.current].pendingClose = None
    <3>1. Enter(u, m, m.current)
      BY <1>3, <2>4 DEF Come
    <3> QED
      BY <2>1, <2>2, <3>1, EnterTypes
  <2> QED
    BY <2>3, <2>4
<1>4. ASSUME NEW u \in Users, Resume(u)
      PROVE  ManagerTypes'
  <2>1. entryOf[u] \in Entries /\ Enter(u, mgr, entryOf[u])
    BY <1>4 DEF Resume, ManagerTypes
  <2> QED
    BY <1>1, <2>1, EnterTypes
<1>5. ASSUME NEW u \in Users, ConnectSucceeds(u)
      PROVE  ManagerTypes'
  <2> PICK e : e = entryOf[u]
    OBVIOUS
  <2>1. e \in Entries /\ bridgeOf[u] = u
    BY <1>5 DEF ConnectSucceeds, ManagerTypes
  <2> PICK m : m = [mgr EXCEPT !.entry[e].bridge = u]
    OBVIOUS
  <2> PICK c : c = [conn EXCEPT ![u] = "open"]
    OBVIOUS
  <2>2. Obtain(u, m, u, c)
    BY <1>5, <2>1 DEF ConnectSucceeds
  <2>3. m \in ManagerRecord /\ m.closes = None
    <3> PICK x : x = [entry[e] EXCEPT !.bridge = u]
      OBVIOUS
    <3>1. x \in Entry
      BY <1>1, <2>1 DEF ManagerRecord, Entry
    <3>2. m = [current |-> current, entry |-> [entry EXCEPT ![e] = x], closes |-> None]
      BY <1>1, <2>1 DEF ManagerRecord
    <3>3. [entry EXCEPT ![e] = x] \in [Entries -> Entry]
      BY <1>1, <3>1 DEF ManagerRecord
    <3> QED
      BY <1>1, <3>2, <3>3 DEF ManagerRecord
  <2>4. c \in [Bridges -> Conns] /\ \A x \in Bridges : c[x] = "closing" => conn[x] = "closing"
    BY <1>2 DEF Conns
  <2> QED
    BY <2>2, <2>3, <2>4, ObtainTypes
<1>6. ASSUME NEW u \in Users, ConnectFails(u)
      PROVE  ManagerTypes'
  <2> PICK e : e = entryOf[u]
    OBVIOUS
  <2>1. e \in Entries /\ bridgeOf[u] = u
    BY <1>6 DEF ConnectFails, ManagerTypes
  <2>2. PICK k : k = [mgr EXCEPT !.entry[e].refCount = @ - 1]
    OBVIOUS
  <2>3. PICK m : m = IF u \in Triggers THEN DeleteIf(k, Unused(k.entry[e])) ELSE mgr
    OBVIOUS
  <2>4. PICK c : c = [conn EXCEPT ![u] = "closed"]
    OBVIOUS
  <2>5. Set(m) /\ conn' = c /\ Go(u, "gone", None, None)
    BY <1>6, <2>1, <2>2, <2>3, <2>4 DEF ConnectFails
  <2>6. m \in ManagerRecord /\ m.closes = None
    <3> PICK x : x = [entry[e] EXCEPT !.refCount = @ - 1]
      OBVIOUS
    <3>1. x \in Entry
      BY <1>1, <2>1 DEF ManagerRecord, Entry
    <3>2. k = [current |-> current, entry |-> [entry EXCEPT ![e] = x], closes |-> None]
      BY <1>1, <2>1, <2>2 DEF ManagerRecord
    <3>3. [entry EXCEPT ![e] = x] \in [Entries -> Entry]
      BY <1>1, <3>1 DEF ManagerRecord
    <3>4. k \in ManagerRecord /\ k.closes = None
      BY <1>1, <3>2, <3>3 DEF ManagerRecord
    <3>5. Unused(k.entry[e]) \in BOOLEAN
      BY DEF Unused
    <3> QED
      BY <1>1, <2>3, <3>4, <3>5, DeleteIfGives
  <2>7. c \in [Bridges -> Conns] /\ \A x \in Bridges : c[x] = "closing" => conn[x] = "closing"
    BY <1>2, <2>4 DEF Conns
  <2>8. Closing(m, c) = c
    BY <2>6, <2>7, NothingCloses
  <2> QED
    BY <2>5, <2>6, <2>7, <2>8, StepTypes
<1>7. ASSUME NEW t \in Triggers, Leave(t)
      PROVE  ManagerTypes'
  <2> PICK k : k = RemoveMethodRef(mgr, t)
    OBVIOUS
  <2> PICK r : r = Release(k)
    OBVIOUS
  <2>1. r \in ManagerRecord /\ (r.closes # None => r.current # None)
    BY <1>1, NewObjects, RemoveMethodRefGives, ReleaseGives
  <2>2. Set(r) /\ conn' = Closing(r, conn) /\ Go(t, "gone", None, None)
    BY <1>7 DEF Leave
  <2> QED
    BY <1>2, <2>1, <2>2, NewObjects, StepTypes
<1>8. ASSUME NEW u \in Users, Finish(u) \/ ItemThrows(u)
      PROVE  ManagerTypes'
  <2>1. Go(u, "gone", None, None) /\ UNCHANGED <<current, entry, conn, closesFor>>
    BY <1>8 DEF Finish, ItemThrows
  <2>2. /\ at' \in [Users -> Places]
        /\ entryOf' \in [Users -> Entries \cup {None}]
        /\ bridgeOf' \in [Users -> Bridges \cup {None}]
        /\ \A v \in Users :
             /\ at'[v] \in {"waiting", "resumed", "connecting"} => entryOf'[v] \in Entries
             /\ at'[v] = "connecting" => bridgeOf'[v] = v
    BY <2>1, GoTypes
  <2> QED
    BY <2>1, <2>2 DEF ManagerTypes, ManagerTypeOK
<1>9. ASSUME NEW t \in Triggers, Registered(t)
      PROVE  ManagerTypes'
  BY <1>9, NewObjects DEF Registered, ManagerTypes, ManagerTypeOK
<1>10. ASSUME NEW b \in Bridges, CloseDone(b)
       PROVE  ManagerTypes'
  <2> PICK e : e = closesFor[b]
    OBVIOUS
  <2>1. e \in Entries
    BY <1>10 DEF CloseDone, ManagerTypes
  <2> PICK m : m = IF entry[e].pendingClose = b THEN [mgr EXCEPT !.entry[e].pendingClose = None]
                                              ELSE mgr
    OBVIOUS
  <2> PICK n : n = DeleteIf(m, Unused(m.entry[e]) /\ m.entry[e].bridge = None)
    OBVIOUS
  <2>2. /\ current' = n.current /\ entry' = n.entry
        /\ conn' = [conn EXCEPT ![b] = "closed"]
        /\ closesFor' = [closesFor EXCEPT ![b] = None]
        /\ at' = [u \in Users |-> IF at[u] = "waiting" /\ bridgeOf[u] = b
                                  THEN "resumed" ELSE at[u]]
        /\ UNCHANGED <<entryOf, bridgeOf>>
    BY <1>10 DEF CloseDone
  <2>3. m \in ManagerRecord
    <3> PICK x : x = [entry[e] EXCEPT !.pendingClose = None]
      OBVIOUS
    <3>1. x \in Entry
      BY <1>1, <2>1 DEF ManagerRecord, Entry
    <3>2. [mgr EXCEPT !.entry[e].pendingClose = None]
          = [current |-> current, entry |-> [entry EXCEPT ![e] = x], closes |-> None]
      BY <1>1, <2>1 DEF ManagerRecord
    <3>3. [entry EXCEPT ![e] = x] \in [Entries -> Entry]
      BY <1>1, <3>1 DEF ManagerRecord
    <3> QED
      BY <1>1, <3>2, <3>3 DEF ManagerRecord
  <2>4. n \in {m, [m EXCEPT !.current = None]}
    BY DEF DeleteIf
  <2>5. current' \in Entries \cup {None} /\ entry' \in [Entries -> Entry]
    BY <2>2, <2>3, <2>4 DEF ManagerRecord
  <2> QED
    BY <2>2, <2>5 DEF ManagerTypes, ManagerTypeOK
<1> QED
  BY <1>3, <1>4, <1>5, <1>6, <1>7, <1>8, <1>9, <1>10, NewObjects DEF Step

-----------------------------------------------------------------------------
(* The counts *)

\* Sets of triggers have a size, which one more or less changes by one.
LEMMA Sizes ==
  ASSUME NEW S \in SUBSET Triggers, NEW t
  PROVE  /\ IsFiniteSet(S) /\ Cardinality(S) \in Nat
         /\ Cardinality(S) = 0 <=> S = {}
         /\ t \notin S => Cardinality(S \cup {t}) = Cardinality(S) + 1
         /\ t \in S => Cardinality(S \ {t}) = Cardinality(S) - 1
<1>1. IsFiniteSet(S)
  BY FS_Subset
<1> QED
  BY <1>1, FS_CardinalityType, FS_EmptySet, FS_AddElement, FS_RemoveElement

\* Where a user goes, and whether it owns the Bridge then; the others stay.
LEMMA GoMoves ==
  ASSUME ManagerTypes, NEW u \in Users, NEW w, NEW e, NEW b, Go(u, w, e, b)
  PROVE  /\ at'[u] = w /\ entryOf'[u] = e /\ bridgeOf'[u] = b
         /\ \A v \in Users : v # u => /\ at'[v] = at[v]
                                     /\ entryOf'[v] = entryOf[v]
                                     /\ bridgeOf'[v] = bridgeOf[v]
         /\ Owners' = IF u \in Triggers /\ w \in {"connecting", "registering", "active"}
                      THEN Owners \cup {u} ELSE Owners \ {u}
         /\ Served' = IF u \in Triggers /\ w \in {"registering", "active"}
                      THEN Served \cup {u} ELSE Served \ {u}
<1>1. /\ at'[u] = w /\ entryOf'[u] = e /\ bridgeOf'[u] = b
      /\ \A v \in Users : v # u => /\ at'[v] = at[v]
                                  /\ entryOf'[v] = entryOf[v]
                                  /\ bridgeOf'[v] = bridgeOf[v]
  BY DEF Go, ManagerTypes, ManagerTypeOK
<1> QED
  BY <1>1, NewObjects DEF Owners, Served

\* Who is served owns the Bridge.
LEMMA ServedOwn == Served \subseteq Owners /\ Owners \subseteq Triggers /\ Triggers \subseteq Users
BY NewObjects DEF Served, Owners

-----------------------------------------------------------------------------
(* The steps, as long as nobody has strayed *)

\* A step of a user that gets into an entry, x, or leaves it, while no Bridge is closed.
LEMMA Settled ==
  ASSUME ManagerTypes, ManagerTypes', Straight,
         NEW u \in Users, NEW w \in {"connecting", "registering", "using", "gone"},
         NEW e, NEW b, Go(u, w, e, b),
         NEW x \in Entries, current' = x, current \in {None, x},
         entry'[x].pendingClose = None,
         \A a \in Bridges : conn'[a] # "closing",
         \A a \in Bridges : a # u => conn'[a] = conn[a],
         conn[u] = "open" => conn'[u] = "open",
         w = "connecting" => e = x /\ conn'[u] = "connecting",
         w = "registering" => b \in Bridges /\ conn'[b] = "open",
         entry'[x].bridge # None => conn'[entry'[x].bridge] = "open",
         entry'[x].refCount = Cardinality(Owners'),
         entry'[x].methodRefs = Cardinality(Served'),
         u \in Requesters /\ w = "registering" => Served \ {u} = {}
  PROVE  Straight'
<1>1. /\ at'[u] = w /\ entryOf'[u] = e /\ bridgeOf'[u] = b
      /\ \A v \in Users : v # u => /\ at'[v] = at[v]
                                  /\ entryOf'[v] = entryOf[v]
                                  /\ bridgeOf'[v] = bridgeOf[v]
  BY GoMoves
<1>2. x # None /\ Triggers \subseteq Users /\ Requesters \subseteq Triggers
  BY NewObjects
<1>3. CountsExact'
  BY <1>2 DEF CountsExact
<1>4. OneEntry'
  <2>1. ASSUME NEW t \in Triggers, at'[t] = "connecting"
        PROVE  entryOf'[t] = x
    <3>1. CASE t = u
      BY <1>1, <2>1, <3>1
    <3>2. CASE t # u
      <4>1. at[t] = "connecting" /\ entryOf'[t] = entryOf[t]
        BY <1>1, <1>2, <2>1, <3>2
      <4>2. t \in Owners
        BY <4>1 DEF Owners
      <4>3. current = x
        BY <4>2 DEF Straight, CountsExact
      <4> QED
        BY <4>1, <4>3 DEF Straight, OneEntry
    <3> QED
      BY <3>1, <3>2
  <2> QED
    BY <2>1 DEF OneEntry
<1>5. BridgesOpen'
  <2>1. ASSUME NEW v \in Users
        PROVE  /\ at'[v] \in {"idle", "waiting", "resumed"} => conn'[v] = "unused"
               /\ at'[v] = "connecting" => conn'[v] = "connecting"
    BY <1>1 DEF Straight, BridgesOpen
  <2>2. ASSUME NEW t \in Served'
        PROVE  bridgeOf'[t] \in Bridges /\ conn'[bridgeOf'[t]] = "open"
    <3>1. CASE t = u
      BY <1>1, <2>2, <3>1 DEF Served, Straight, BridgesOpen
    <3>2. CASE t # u
      <4>1. t \in Served /\ bridgeOf'[t] = bridgeOf[t]
        BY <1>1, <1>2, <2>2, <3>2 DEF Served
      <4>2. bridgeOf[t] \in Bridges /\ conn[bridgeOf[t]] = "open"
        BY <4>1 DEF Straight, BridgesOpen
      <4> QED
        BY <4>1, <4>2
    <3> QED
      BY <3>1, <3>2
  <2> QED
    BY <2>1, <2>2 DEF BridgesOpen
<1>6. RequestersExclude'
  BY <1>1, <1>2 DEF Straight, RequestersExclude, Served
<1> QED
  BY <1>3, <1>4, <1>5, <1>6 DEF Straight

\* A step of a user that does not own the Bridge, and does not get to: it counts nothing.
LEMMA Aside ==
  ASSUME ManagerTypes, ManagerTypes', Straight,
         NEW u \in Users, u \notin Owners, NEW w \in {"waiting", "using", "gone"},
         NEW e, NEW b, Go(u, w, e, b), w = "waiting" => conn[u] = "unused",
         Quiet, current' = current, closesFor' = closesFor,
         \A f \in Entries :
           /\ entry'[f].refCount = entry[f].refCount
           /\ entry'[f].methodRefs = entry[f].methodRefs
           /\ entry'[f].pendingClose = entry[f].pendingClose
           /\ \/ entry'[f].bridge = entry[f].bridge
              \/ entry'[f].bridge = u /\ conn'[u] = "open",
         \A a \in Bridges : a # u => conn'[a] = conn[a],
         conn'[u] # conn[u] => conn[u] = "connecting" /\ conn'[u] # "closing"
  PROVE  Straight'
<1>1. /\ at'[u] = w
      /\ \A v \in Users : v # u => /\ at'[v] = at[v]
                                  /\ entryOf'[v] = entryOf[v]
                                  /\ bridgeOf'[v] = bridgeOf[v]
  BY NewObjects, GoMoves
<1>2. Triggers \subseteq Users /\ Requesters \subseteq Triggers
  BY NewObjects
<1>3. Owners' = Owners /\ Served' = Served
  BY <1>1, <1>2 DEF Owners, Served
<1>4. current # None => current \in Entries
  BY DEF ManagerTypes, ManagerTypeOK
<1>5. \A a \in Bridges : /\ conn[a] = "open" => conn'[a] = "open"
                         /\ conn'[a] = "closing" => conn[a] = "closing"
  OBVIOUS
<1>6. CountsExact'
  BY <1>3, <1>4 DEF Straight, CountsExact
<1>7. OneEntry'
  <2>1. Quiet'
    BY <1>1 DEF Quiet
  <2> QED
    BY <1>1, <1>2, <1>3, <1>4, <1>5, <2>1 DEF Straight, OneEntry
<1>8. BridgesOpen'
  <2>1. ASSUME NEW v \in Users
        PROVE  /\ at'[v] \in {"idle", "waiting", "resumed"} => conn'[v] = "unused"
               /\ at'[v] = "connecting" => conn'[v] = "connecting"
    BY <1>1 DEF Straight, BridgesOpen
  <2>2. \A t \in Served : bridgeOf'[t] = bridgeOf[t]
    BY <1>1, ServedOwn
  <2>3. entry[current].bridge \in Bridges \cup {None} \/ current = None
    BY <1>4 DEF ManagerTypes, ManagerTypeOK, Entry
  <2>4. current # None /\ entry'[current].bridge # None => conn'[entry'[current].bridge] = "open"
    BY <1>4, <1>5, <2>3 DEF Straight, BridgesOpen
  <2> QED
    BY <1>3, <1>5, <2>1, <2>2, <2>4 DEF Straight, BridgesOpen
<1>9. RequestersExclude'
  BY <1>3 DEF Straight, RequestersExclude
<1> QED
  BY <1>6, <1>7, <1>8, <1>9 DEF Straight

\* A user gets its Bridge, b: a trigger is served, or gives up and another one is still there.
LEMMA ObtainStraight ==
  ASSUME ManagerTypes, ManagerTypes', Straight, NEW u \in Users, u \notin Served,
         NEW m \in ManagerRecord, m.closes = None, NEW x \in Entries, m.current = x,
         current \in {None, x},
         u \in Triggers => m.entry[x].refCount = Cardinality(Owners \cup {u}),
         u \notin Triggers => m.entry[x].refCount = Cardinality(Owners),
         m.entry[x].methodRefs = Cardinality(Served),
         m.entry[x].pendingClose = None,
         NEW b \in Bridges, NEW c \in [Bridges -> Conns], c[b] = "open",
         m.entry[x].bridge # None => c[m.entry[x].bridge] = "open",
         \A a \in Bridges : c[a] # "closing",
         \A a \in Bridges : a # u => c[a] = conn[a],
         conn[u] = "open" => c[u] = "open",
         Obtain(u, m, b, c)
  PROVE  Straight'
<1>1. m.entry[x] \in Entry /\ x # None
  BY NewObjects DEF ManagerRecord
<1>4. /\ Served \in SUBSET Triggers /\ Owners \in SUBSET Triggers
      /\ Served \ {u} = Served /\ Cardinality(Served) \in Nat
  <2>1. Served \in SUBSET Triggers /\ Owners \in SUBSET Triggers
    BY ServedOwn
  <2> QED
    BY <2>1, Sizes
<1>2. CASE u \in Borrowers
  <2>1. Set(m) /\ conn' = c /\ Go(u, "using", None, b) /\ u \notin Triggers
    BY <1>2, NewObjects DEF Obtain
  <2>2. Owners \ {u} = Owners
    BY <1>4, <2>1
  <2>3. Owners' = Owners /\ Served' = Served
    BY <1>4, <2>1, <2>2, GoMoves
  <2> QED
    BY <2>1, <2>3, Settled DEF Set
<1>3. CASE u \in Triggers
  <2>1. PICK n : n = AddMethodRef(m, u)
    OBVIOUS
  <2>2. /\ n \in ManagerRecord /\ n.closes = None /\ n.current = x
        /\ n.entry[x] = [m.entry[x] EXCEPT !.methodRefs = @ + 1]
    BY <1>1, <2>1, AddMethodRefGives
  <2>3. Owners \cup {u} \in SUBSET Triggers /\ Owners \ {u} \in SUBSET Triggers
    BY <1>3, <1>4
  <2>4. /\ n.entry[x].refCount = Cardinality(Owners \cup {u})
        /\ n.entry[x].methodRefs = Cardinality(Served) + 1
        /\ n.entry[x].bridge = m.entry[x].bridge /\ n.entry[x].pendingClose = None
    BY <1>1, <1>3, <2>2 DEF Entry
  <2>5. u \notin Borrowers
    BY <1>3
  <2>6. CASE u \in Requesters /\ n.entry[n.current].methodRefs > 1
    <3>1. PICK k : k = RemoveMethodRef(n, u)
      OBVIOUS
    <3>2. PICK r : r = Release(k)
      OBVIOUS
    <3>3. Set(r) /\ conn' = Closing(r, c) /\ Go(u, "gone", None, None)
      BY <2>1, <2>5, <2>6, <3>1, <3>2 DEF Obtain
    <3>4. n.entry[x] \in Entry
      BY <2>2 DEF ManagerRecord
    <3>5. /\ k \in ManagerRecord /\ k.closes = None /\ k.current = x
          /\ k.entry[x] = [n.entry[x] EXCEPT !.methodRefs = @ - 1]
      <4>1. n.entry[x].methodRefs > 0
        BY <1>4, <2>4
      <4>2. /\ k \in ManagerRecord /\ k.closes = None
            /\ k.current = n.current
            /\ k.entry[k.current] = [n.entry[n.current] EXCEPT !.methodRefs = @ - 1]
        BY <1>1, <2>2, <3>1, <4>1, RemoveMethodRefGives
      <4> QED
        BY <2>2, <4>2
    <3>6. /\ k.entry[x].refCount = Cardinality(Owners \cup {u})
          /\ k.entry[x].methodRefs = Cardinality(Served)
          /\ k.entry[x].bridge = m.entry[x].bridge /\ k.entry[x].pendingClose = None
          /\ k.entry[x] \in Entry
      BY <1>4, <2>4, <3>4, <3>5 DEF Entry
    <3>7. /\ Cardinality(Owners \cup {u}) \in Nat
          /\ Cardinality(Owners \ {u}) = Cardinality(Owners \cup {u}) - 1
      <4>1. PICK S : S = Owners \cup {u}
        OBVIOUS
      <4>2. S \in SUBSET Triggers /\ u \in S /\ S \ {u} = Owners \ {u}
        BY <2>3, <4>1
      <4>3. Cardinality(S) \in Nat /\ Cardinality(S \ {u}) = Cardinality(S) - 1
        BY <4>2, Sizes
      <4> QED
        BY <4>1, <4>2, <4>3
    <3>8. Cardinality(Owners \ {u}) > 0
      <4>1. Served # {}
        <5>1. Cardinality(Served) # 0
          BY <1>4, <2>2, <2>4, <2>6
        <5> QED
          BY <1>4, <5>1, Sizes
      <4>2. Owners \ {u} # {}
        BY <4>1, ServedOwn
      <4>3. Cardinality(Owners \ {u}) \in Nat /\ Cardinality(Owners \ {u}) # 0
        BY <2>3, <4>2, Sizes
      <4> QED
        BY <4>3
    <3>9. /\ r \in ManagerRecord /\ r.current = x /\ r.closes = None
          /\ r.entry[x] = [k.entry[x] EXCEPT !.refCount = @ - 1]
      <4>1. k.entry[x].refCount > 1
        BY <3>6, <3>7, <3>8
      <4>2. /\ r \in ManagerRecord /\ r.current = k.current /\ r.closes = None
            /\ r.entry[k.current] = [k.entry[k.current] EXCEPT !.refCount = @ - 1]
        <5>1. ~(k.entry[k.current].refCount <= 1) /\ k.current # None
          BY <1>1, <3>5, <3>6, <3>7, <4>1
        <5> QED
          BY <3>2, <3>5, <5>1, ReleaseGives
      <4> QED
        BY <3>5, <4>2
    <3>10. /\ r.entry[x].refCount = Cardinality(Owners \ {u})
           /\ r.entry[x].methodRefs = Cardinality(Served)
           /\ r.entry[x].bridge = m.entry[x].bridge /\ r.entry[x].pendingClose = None
      BY <3>6, <3>7, <3>9 DEF Entry
    <3>11. Owners' = Owners \ {u} /\ Served' = Served
      BY <1>4, <3>3, GoMoves
    <3>12. conn' = c /\ current' = x /\ entry' = r.entry
      BY <3>3, <3>9, NothingCloses DEF Set
    <3> QED
      BY <3>3, <3>10, <3>11, <3>12, Settled
  <2>7. CASE ~(u \in Requesters /\ n.entry[n.current].methodRefs > 1)
    <3>1. Set(n) /\ conn' = c /\ Go(u, "registering", None, b)
      BY <2>1, <2>5, <2>7 DEF Obtain
    <3>2. Owners' = Owners \cup {u} /\ Served' = Served \cup {u}
      BY <1>3, <3>1, GoMoves
    <3>3. Cardinality(Served \cup {u}) = Cardinality(Served) + 1
      BY <1>4, Sizes
    <3>4. u \in Requesters => Served \ {u} = {}
      <4>1. u \in Requesters => Cardinality(Served) = 0
        BY <1>4, <2>2, <2>4, <2>7
      <4> QED
        BY <1>4, <4>1, Sizes
    <3>5. conn' = c /\ current' = x /\ entry' = n.entry
      BY <2>2, <3>1 DEF Set
    <3>6. /\ entry'[x].refCount = Cardinality(Owners')
          /\ entry'[x].methodRefs = Cardinality(Served')
          /\ entry'[x].pendingClose = None
          /\ entry'[x].bridge # None => conn'[entry'[x].bridge] = "open"
      BY <2>4, <3>2, <3>3, <3>5
    <3>7. /\ \A a \in Bridges : conn'[a] # "closing"
          /\ \A a \in Bridges : a # u => conn'[a] = conn[a]
          /\ conn[u] = "open" => conn'[u] = "open"
          /\ conn'[b] = "open"
      BY <3>5
    <3> QED
      BY <3>1, <3>4, <3>5, <3>6, <3>7, Settled
  <2> QED
    BY <2>6, <2>7
<1> QED
  BY <1>2, <1>3, NewObjects

\* A user goes on with the entry in the map, while no Bridge is closed for it.
LEMMA EnterStraight ==
  ASSUME ManagerTypes, ManagerTypes', Straight,
         NEW u \in Users, at[u] \in {"idle", "resumed"},
         NEW m \in ManagerRecord, m.closes = None, NEW x \in Entries, m.current = x,
         current \in {None, x},
         m.entry[x].refCount = Cardinality(Owners),
         m.entry[x].methodRefs = Cardinality(Served),
         m.entry[x].pendingClose = None,
         m.entry[x].bridge # None => conn[m.entry[x].bridge] = "open",
         \A a \in Bridges : conn[a] # "closing",
         Enter(u, m, x)
  PROVE  Straight'
<1>1. PICK n : n = IF u \in Triggers THEN [m EXCEPT !.entry[x].refCount = @ + 1] ELSE m
  OBVIOUS
<1>2. m.entry[x] \in Entry /\ conn \in [Bridges -> Conns]
  BY DEF ManagerRecord, ManagerTypes, ManagerTypeOK, Conns
<1>3. u \notin Owners /\ u \notin Served
  BY DEF Owners, Served
<1>4. /\ n \in ManagerRecord /\ n.closes = None /\ n.current = x
      /\ u \in Triggers => n.entry[x].refCount = Cardinality(Owners \cup {u})
      /\ u \notin Triggers => n.entry[x].refCount = Cardinality(Owners)
      /\ n.entry[x].methodRefs = Cardinality(Served)
      /\ n.entry[x].pendingClose = None /\ n.entry[x].bridge = m.entry[x].bridge
  <2>1. CASE u \in Triggers
    <3>1. PICK y : y = [m.entry[x] EXCEPT !.refCount = @ + 1]
      OBVIOUS
    <3>2. n = [current |-> x, entry |-> [m.entry EXCEPT ![x] = y], closes |-> None]
      BY <1>1, <2>1, <3>1 DEF ManagerRecord
    <3>3. /\ y \in Entry /\ y.refCount = Cardinality(Owners) + 1
          /\ y.methodRefs = m.entry[x].methodRefs /\ y.bridge = m.entry[x].bridge
          /\ y.pendingClose = m.entry[x].pendingClose
      BY <1>2, <3>1 DEF Entry
    <3>4. [m.entry EXCEPT ![x] = y] \in [Entries -> Entry] /\ n.entry[x] = y
      BY <3>2, <3>3 DEF ManagerRecord
    <3>5. Cardinality(Owners \cup {u}) = Cardinality(Owners) + 1
      BY <1>3, ServedOwn, Sizes
    <3> QED
      BY <2>1, <3>2, <3>3, <3>4, <3>5 DEF ManagerRecord
  <2> QED
    BY <1>1, <2>1
<1>5. CASE n.entry[x].bridge # None
  <2>1. Obtain(u, n, n.entry[x].bridge, conn)
    BY <1>1, <1>5 DEF Enter
  <2>2. n.entry[x].bridge \in Bridges
    BY <1>4, <1>5 DEF ManagerRecord, Entry
  <2> QED
    BY <1>2, <1>3, <1>4, <1>5, <2>1, <2>2, ObtainStraight
<1>6. CASE n.entry[x].bridge = None
  <2>1. /\ Set(n) /\ conn' = [conn EXCEPT ![u] = "connecting"]
        /\ Go(u, "connecting", x, u)
    BY <1>1, <1>6 DEF Enter
  <2>2. conn[u] = "unused"
    BY DEF Straight, BridgesOpen
  <2>3. /\ Owners' = IF u \in Triggers THEN Owners \cup {u} ELSE Owners
        /\ Served' = Served
    <3>1. Owners \ {u} = Owners /\ Served \ {u} = Served
      BY <1>3
    <3>2. /\ Owners' = IF u \in Triggers THEN Owners \cup {u} ELSE Owners \ {u}
          /\ Served' = Served \ {u}
      BY <2>1, GoMoves
    <3> QED
      BY <3>1, <3>2
  <2>4. current' = x /\ entry' = n.entry
    BY <1>4, <2>1 DEF Set
  <2>5. conn'[u] = "connecting" /\ \A a \in Bridges : a # u => conn'[a] = conn[a]
    BY <1>2, <2>1
  <2> QED
    BY <1>4, <1>6, <2>1, <2>2, <2>3, <2>4, <2>5, Settled
<1> QED
  BY <1>5, <1>6

\* A user comes.
LEMMA ComeStraight ==
  ASSUME ManagerTypes, ManagerTypes', Straight, NEW u \in Users, Come(u)
  PROVE  Straight'
<1>1. PICK mgr : mgr = Manager
  OBVIOUS
<1>2. mgr \in ManagerRecord /\ mgr.closes = None /\ mgr.current = current /\ mgr.entry = entry
  BY <1>1 DEF Manager, ManagerRecord, ManagerTypes, ManagerTypeOK
<1>3. PICK m : m = GetEntry(mgr, <<u, "acquire">>)
  OBVIOUS
<1>4. PICK x : x = m.current
  OBVIOUS
<1>5. /\ m \in ManagerRecord /\ m.closes = None /\ x # None /\ x \in Entries
      /\ current # None => m = mgr
      /\ current = None => m.entry[x] = EmptyEntry
  <2>1. /\ m \in ManagerRecord /\ m.closes = None /\ x # None
        /\ current # None => m = mgr
        /\ current = None => m.entry[x] = EmptyEntry
    BY <1>2, <1>3, <1>4, GetEntryGives, NewObjects
  <2> QED
    BY <1>4, <2>1 DEF ManagerRecord
<1>6. Quiet /\ at[u] = "idle" /\ u \notin Owners
  BY DEF Come, Owners
<1>7. /\ current \in {None, x}
      /\ m.entry[x].refCount = Cardinality(Owners)
      /\ m.entry[x].methodRefs = Cardinality(Served)
      /\ m.entry[x].bridge # None => conn[m.entry[x].bridge] = "open"
  <2>1. CASE current = None
    <3>1. Owners = {} /\ Served = {}
      BY <2>1, ServedOwn DEF Straight, CountsExact
    <3> QED
      BY <1>5, <2>1, <3>1, FS_EmptySet DEF EmptyEntry
  <2>2. CASE current # None
    BY <1>2, <1>4, <1>5, <2>2 DEF Straight, CountsExact, BridgesOpen
  <2> QED
    BY <2>1, <2>2
<1>8. CASE m.entry[x].pendingClose # None
  <2>1. current # None
    BY <1>5, <1>8 DEF EmptyEntry
  <2>2. /\ Set(m) /\ conn' = conn /\ Go(u, "waiting", x, m.entry[x].pendingClose)
    BY <1>1, <1>3, <1>4, <1>8 DEF Come
  <2>3. current' = current /\ entry' = entry
    BY <1>2, <1>5, <2>1, <2>2 DEF Set
  <2>4. closesFor' = closesFor
    BY <1>5, <2>2, NothingCloses DEF ManagerTypes, ManagerTypeOK, Conns
  <2>5. conn[u] = "unused"
    BY <1>6 DEF Straight, BridgesOpen
  <2>6. PICK b : b = m.entry[x].pendingClose
    OBVIOUS
  <2>7. Go(u, "waiting", x, b)
    BY <2>2, <2>6
  <2>8. \A f \in Entries :
           /\ entry'[f].refCount = entry[f].refCount
           /\ entry'[f].methodRefs = entry[f].methodRefs
           /\ entry'[f].pendingClose = entry[f].pendingClose
           /\ \/ entry'[f].bridge = entry[f].bridge
              \/ entry'[f].bridge = u /\ conn'[u] = "open"
    BY <2>3
  <2>9. /\ \A a \in Bridges : a # u => conn'[a] = conn[a]
        /\ conn'[u] # conn[u] => conn[u] = "connecting" /\ conn'[u] # "closing"
    BY <2>2
  <2>10. u \notin Owners /\ Quiet
    BY <1>6
  <2> QED
    BY <2>3, <2>4, <2>5, <2>7, <2>8, <2>9, <2>10, Aside
<1>9. CASE m.entry[x].pendingClose = None
  <2>1. Enter(u, m, x)
    BY <1>1, <1>3, <1>4, <1>9 DEF Come
  <2>2. \A a \in Bridges : conn[a] # "closing"
    <3>1. current # None => entry[current].pendingClose = None
      BY <1>2, <1>4, <1>5, <1>9
    <3> QED
      BY <3>1, NewObjects DEF Straight, OneEntry
  <2> QED
    BY <1>4, <1>5, <1>6, <1>7, <1>9, <2>1, <2>2, EnterStraight
<1> QED
  BY <1>8, <1>9

\* It resumes, and its entry is still in the map.
LEMMA ResumeStraight ==
  ASSUME ManagerTypes, ManagerTypes', Straight, NEW u \in Users, Resume(u), ~Strays
  PROVE  Straight'
<1>1. PICK mgr : mgr = Manager
  OBVIOUS
<1>2. mgr \in ManagerRecord /\ mgr.closes = None /\ mgr.current = current /\ mgr.entry = entry
  BY <1>1 DEF Manager, ManagerRecord, ManagerTypes, ManagerTypeOK
<1>3. at[u] = "resumed" /\ entryOf[u] \in Entries /\ Enter(u, mgr, entryOf[u])
  BY <1>1 DEF Resume, ManagerTypes
<1>4. at'[u] # "resumed"
  <2>1. ASSUME NEW w, NEW e, NEW b, Go(u, w, e, b), w # "resumed"
        PROVE  at'[u] # "resumed"
    BY <2>1, GoMoves
  <2> QED
    BY <1>3, <2>1 DEF Enter, Obtain
<1>5. entryOf[u] = current /\ current # None
  BY <1>3, <1>4, NewObjects DEF Strays
<1>6. entry[current].pendingClose = None
  BY <1>3, <1>5 DEF Straight, OneEntry, Quiet
<1>7. \A a \in Bridges : conn[a] # "closing"
  BY <1>5, <1>6, NewObjects DEF Straight, OneEntry
<1> QED
  BY <1>2, <1>3, <1>5, <1>6, <1>7, EnterStraight DEF Straight, CountsExact, BridgesOpen

\* The owners' entry is in the map, and nothing is closed.
LEMMA OwnersEntry ==
  ASSUME ManagerTypes, Straight, NEW t \in Owners
  PROVE  /\ current \in Entries /\ entry[current] \in Entry
         /\ entry[current].refCount = Cardinality(Owners)
         /\ entry[current].methodRefs = Cardinality(Served)
         /\ entry[current].pendingClose = None
         /\ \A a \in Bridges : conn[a] # "closing"
         /\ at[t] = "connecting" => entryOf[t] = current
<1>1. current # None
  BY DEF Straight, CountsExact
<1>2. current \in Entries /\ entry[current] \in Entry
  BY <1>1 DEF ManagerTypes, ManagerTypeOK
<1>3. entry[current].pendingClose = None
  BY <1>1 DEF Straight, OneEntry
<1> QED
  BY <1>1, <1>2, <1>3, NewObjects DEF Straight, CountsExact, OneEntry, Owners

\* Its connect resolves.
LEMMA ConnectSucceedsStraight ==
  ASSUME ManagerTypes, ManagerTypes', Straight, NEW u \in Users, ConnectSucceeds(u)
  PROVE  Straight'
<1>1. PICK mgr : mgr = Manager
  OBVIOUS
<1>2. mgr \in ManagerRecord /\ mgr.closes = None /\ mgr.current = current /\ mgr.entry = entry
  BY <1>1 DEF Manager, ManagerRecord, ManagerTypes, ManagerTypeOK
<1>3. PICK e : e = entryOf[u]
  OBVIOUS
<1>4. /\ Quiet /\ at[u] = "connecting" /\ e \in Entries /\ bridgeOf[u] = u
      /\ conn[u] = "connecting" /\ u \notin Served
  BY <1>3 DEF ConnectSucceeds, ManagerTypes, Straight, BridgesOpen, Served
<1>5. PICK m : m = [mgr EXCEPT !.entry[e].bridge = u]
  OBVIOUS
<1>6. PICK c : c = [conn EXCEPT ![u] = "open"]
  OBVIOUS
<1>7. Obtain(u, m, u, c)
  BY <1>1, <1>3, <1>4, <1>5, <1>6 DEF ConnectSucceeds
<1>8. PICK y : y = [entry[e] EXCEPT !.bridge = u]
  OBVIOUS
<1>9. /\ y \in Entry /\ y.bridge = u /\ y.refCount = entry[e].refCount
      /\ y.methodRefs = entry[e].methodRefs /\ y.pendingClose = entry[e].pendingClose
  BY <1>2, <1>4, <1>8 DEF ManagerRecord, Entry
<1>10. m = [current |-> current, entry |-> [entry EXCEPT ![e] = y], closes |-> None]
  BY <1>2, <1>4, <1>5, <1>8 DEF ManagerRecord
<1>11. /\ [entry EXCEPT ![e] = y] \in [Entries -> Entry] /\ m.entry[e] = y
       /\ \A f \in Entries : f # e => m.entry[f] = entry[f]
  BY <1>2, <1>4, <1>9, <1>10 DEF ManagerRecord
<1>12. m \in ManagerRecord /\ m.closes = None /\ m.current = current
  BY <1>2, <1>10, <1>11 DEF ManagerRecord
<1>13. /\ conn \in [Bridges -> Conns] /\ c \in [Bridges -> Conns] /\ c[u] = "open"
       /\ \A a \in Bridges : a # u => c[a] = conn[a]
  BY <1>6 DEF ManagerTypes, ManagerTypeOK, Conns
<1>14. CASE u \in Borrowers
  <2>1. Set(m) /\ conn' = c /\ Go(u, "using", None, u) /\ u \notin Owners
    BY <1>7, <1>14, ServedOwn, NewObjects DEF Obtain
  <2>2. current' = current /\ entry' = m.entry /\ closesFor' = closesFor
    BY <1>12, <1>13, <2>1, NothingCloses DEF Set
  <2>3. \A f \in Entries :
           /\ entry'[f].refCount = entry[f].refCount
           /\ entry'[f].methodRefs = entry[f].methodRefs
           /\ entry'[f].pendingClose = entry[f].pendingClose
           /\ \/ entry'[f].bridge = entry[f].bridge
              \/ entry'[f].bridge = u /\ conn'[u] = "open"
    BY <1>9, <1>11, <1>13, <2>1, <2>2
  <2> QED
    BY <1>4, <1>13, <2>1, <2>2, <2>3, Aside
<1>15. CASE u \in Triggers
  <2>1. u \in Owners
    BY <1>4, <1>15 DEF Owners
  <2>2. /\ current \in Entries /\ e = current
        /\ entry[e].refCount = Cardinality(Owners)
        /\ entry[e].methodRefs = Cardinality(Served)
        /\ entry[e].pendingClose = None
        /\ \A a \in Bridges : conn[a] # "closing"
    BY <1>3, <1>4, <2>1, OwnersEntry
  <2>3. Owners \cup {u} = Owners
    BY <2>1
  <2>4. \A a \in Bridges : c[a] # "closing"
    BY <1>13, <2>2
  <2>5. /\ m.current = e /\ current \in {None, e}
        /\ m.entry[e].refCount = Cardinality(Owners \cup {u})
        /\ m.entry[e].methodRefs = Cardinality(Served)
        /\ m.entry[e].pendingClose = None
        /\ c[m.entry[e].bridge] = "open"
    BY <1>9, <1>11, <1>12, <1>13, <1>15, <2>2, <2>3
  <2> QED
    BY <1>4, <1>7, <1>12, <1>13, <1>15, <2>4, <2>5, ObtainStraight
<1> QED
  BY <1>14, <1>15, NewObjects

\* Its connect fails: a trigger takes its count back, and the last one the entry too.
LEMMA ConnectFailsStraight ==
  ASSUME ManagerTypes, ManagerTypes', Straight, NEW u \in Users, ConnectFails(u)
  PROVE  Straight'
<1>1. PICK mgr : mgr = Manager
  OBVIOUS
<1>2. mgr \in ManagerRecord /\ mgr.closes = None /\ mgr.current = current /\ mgr.entry = entry
  BY <1>1 DEF Manager, ManagerRecord, ManagerTypes, ManagerTypeOK
<1>3. PICK e : e = entryOf[u]
  OBVIOUS
<1>4. /\ Quiet /\ at[u] = "connecting" /\ e \in Entries /\ bridgeOf[u] = u
      /\ conn[u] = "connecting"
  BY <1>3 DEF ConnectFails, ManagerTypes, Straight, BridgesOpen
<1>5. conn \in [Bridges -> Conns]
  BY DEF ManagerTypes, ManagerTypeOK, Conns
<1>6. conn' = [conn EXCEPT ![u] = "closed"] /\ Go(u, "gone", None, None)
  BY <1>4 DEF ConnectFails
<1>7. conn'[u] = "closed" /\ \A a \in Bridges : a # u => conn'[a] = conn[a]
  BY <1>5, <1>6
<1>8. CASE u \in Borrowers
  <2>1. Set(mgr) /\ u \notin Owners
    BY <1>1, <1>8, ServedOwn, NewObjects DEF ConnectFails
  <2>2. current' = current /\ entry' = entry /\ closesFor' = closesFor
    BY <1>2, <1>5, <2>1, NothingCloses DEF Set
  <2> QED
    BY <1>4, <1>6, <1>7, <2>1, <2>2, Aside
<1>9. CASE u \in Triggers
  <2>1. u \in Owners
    BY <1>4, <1>9 DEF Owners
  <2>2. /\ current \in Entries /\ e = current /\ entry[e] \in Entry
        /\ entry[e].refCount = Cardinality(Owners)
        /\ entry[e].methodRefs = Cardinality(Served)
        /\ entry[e].pendingClose = None
        /\ \A a \in Bridges : conn[a] # "closing"
    BY <1>3, <1>4, <2>1, OwnersEntry
  <2>3. PICK k : k = [mgr EXCEPT !.entry[e].refCount = @ - 1]
    OBVIOUS
  <2>4. PICK y : y = [entry[e] EXCEPT !.refCount = @ - 1]
    OBVIOUS
  <2>5. /\ y \in Entry /\ y.refCount = Cardinality(Owners) - 1
        /\ y.methodRefs = Cardinality(Served) /\ y.pendingClose = None
        /\ y.bridge = entry[e].bridge
    BY <2>2, <2>4 DEF Entry
  <2>6. k = [current |-> current, entry |-> [entry EXCEPT ![e] = y], closes |-> None]
    BY <1>2, <1>4, <2>3, <2>4 DEF ManagerRecord
  <2>7. [entry EXCEPT ![e] = y] \in [Entries -> Entry] /\ k.entry[e] = y
    BY <1>2, <1>4, <2>5, <2>6 DEF ManagerRecord
  <2>8. k \in ManagerRecord /\ k.closes = None /\ k.current = e
    BY <1>2, <2>2, <2>6, <2>7 DEF ManagerRecord
  <2>9. Set(DeleteIf(k, Unused(y)))
    BY <1>1, <1>3, <1>9, <2>3, <2>7 DEF ConnectFails
  <2>10. Unused(y) \in BOOLEAN
    BY DEF Unused
  <2>11. current' = (IF Unused(y) THEN None ELSE e) /\ entry' = k.entry /\ closesFor' = closesFor
    <3>1. PICK n : n = DeleteIf(k, Unused(y))
      OBVIOUS
    <3>2. /\ n \in ManagerRecord /\ n.entry = k.entry /\ n.closes = None
          /\ n.current = IF Unused(y) THEN None ELSE e
      BY <2>8, <2>10, <3>1, DeleteIfGives
    <3>3. Set(n)
      BY <2>9, <3>1
    <3> QED
      BY <1>5, <3>2, <3>3, NothingCloses DEF Set
  <2>12. Owners' = Owners \ {u} /\ Served' = Served
    <3>1. Served \ {u} = Served
      BY <1>4 DEF Served
    <3> QED
      BY <1>6, <3>1, GoMoves
  <2>13. Cardinality(Owners') = Cardinality(Owners) - 1
    <3>1. Owners \in SUBSET Triggers
      BY ServedOwn
    <3> QED
      BY <2>1, <2>12, <3>1, Sizes
  <2>14. \A a \in Bridges : conn'[a] # "closing"
    BY <1>7, <2>2
  <2>15. CASE ~Unused(y)
    <3>1. /\ entry'[e].refCount = Cardinality(Owners')
          /\ entry'[e].methodRefs = Cardinality(Served')
          /\ entry'[e].pendingClose = None
          /\ entry'[e].bridge = entry[e].bridge
      BY <2>5, <2>7, <2>11, <2>12, <2>13
    <3>2. entry'[e].bridge # None => conn'[entry'[e].bridge] = "open"
      <4>1. entry[e].bridge # None => entry[e].bridge \in Bridges /\ conn[entry[e].bridge] = "open"
        BY <2>2, NewObjects DEF Straight, BridgesOpen, Entry
      <4> QED
        BY <1>4, <1>7, <3>1, <4>1
    <3>3. current' = e /\ current \in {None, e}
      BY <2>2, <2>11, <2>15
    <3> QED
      BY <1>4, <1>6, <1>7, <2>14, <3>1, <3>2, <3>3, Settled
  <2>16. CASE Unused(y)
    <3>1. current' = None
      BY <2>11, <2>16
    <3>2. Owners' = {} /\ Served' = {}
      <4>1. Cardinality(Owners') = 0 /\ Owners' \in SUBSET Triggers
        BY <2>5, <2>12, <2>13, <2>16, ServedOwn DEF Unused
      <4>2. Owners' = {}
        BY <4>1, Sizes
      <4> QED
        BY <4>2 DEF Owners, Served
    <3>3. CountsExact'
      BY <3>1, <3>2 DEF CountsExact
    <3>4. OneEntry'
      <4>1. \A t \in Triggers : at'[t] # "connecting"
        BY <3>2 DEF Owners
      <4> QED
        BY <2>14, <3>1, <4>1 DEF OneEntry
    <3>5. BridgesOpen'
      <4>1. /\ at'[u] = "gone"
            /\ \A v \in Users : v # u => at'[v] = at[v]
        BY <1>6, GoMoves
      <4> QED
        BY <1>7, <3>1, <3>2, <4>1 DEF Straight, BridgesOpen
    <3>6. RequestersExclude'
      BY <3>2 DEF RequestersExclude
    <3> QED
      BY <3>3, <3>4, <3>5, <3>6 DEF Straight
  <2> QED
    BY <2>15, <2>16
<1> QED
  BY <1>8, <1>9, NewObjects

\* A trigger has registered.
LEMMA RegisteredStraight ==
  ASSUME ManagerTypes, Straight, NEW t \in Triggers, Registered(t)
  PROVE  Straight'
<1>1. /\ at[t] = "registering" /\ at' = [at EXCEPT ![t] = "active"]
      /\ UNCHANGED <<current, entry, conn, closesFor, entryOf, bridgeOf>>
  BY DEF Registered
<1>2. at'[t] = "active" /\ \A v \in Users : v # t => at'[v] = at[v]
  BY <1>1, NewObjects DEF ManagerTypes, ManagerTypeOK
<1>3. Owners' = Owners /\ Served' = Served
  BY <1>1, <1>2, NewObjects DEF Owners, Served
<1>4. Quiet => Quiet'
  BY <1>1, <1>2 DEF Quiet
<1>5. CountsExact'
  BY <1>1, <1>3 DEF Straight, CountsExact
<1>6. OneEntry'
  BY <1>1, <1>2, <1>3, <1>4, NewObjects DEF Straight, OneEntry
<1>7. BridgesOpen'
  BY <1>1, <1>2, <1>3 DEF Straight, BridgesOpen
<1>8. RequestersExclude'
  BY <1>3 DEF Straight, RequestersExclude
<1> QED
  BY <1>5, <1>6, <1>7, <1>8 DEF Straight

\* A trigger releases the Bridge, and the last one closes it.
LEMMA LeaveStraight ==
  ASSUME ManagerTypes, ManagerTypes', Straight, NEW t \in Triggers, Leave(t)
  PROVE  Straight'
<1>1. PICK mgr : mgr = Manager
  OBVIOUS
<1>2. mgr \in ManagerRecord /\ mgr.closes = None /\ mgr.current = current /\ mgr.entry = entry
  BY <1>1 DEF Manager, ManagerRecord, ManagerTypes, ManagerTypeOK
<1>3. Quiet /\ t \in Owners /\ t \in Served /\ t \in Users
  BY NewObjects DEF Leave, Owners, Served
<1>4. PICK x : x = current
  OBVIOUS
<1>5. /\ x \in Entries /\ x # None /\ current = x /\ entry[x] \in Entry
      /\ entry[x].refCount = Cardinality(Owners)
      /\ entry[x].methodRefs = Cardinality(Served)
      /\ entry[x].pendingClose = None
      /\ \A a \in Bridges : conn[a] # "closing"
  BY <1>3, <1>4, OwnersEntry, NewObjects
<1>6. /\ Owners \in SUBSET Triggers /\ Served \in SUBSET Triggers
      /\ Cardinality(Owners) \in Nat /\ Cardinality(Served) \in Nat
      /\ Cardinality(Owners \ {t}) = Cardinality(Owners) - 1
      /\ Cardinality(Served \ {t}) = Cardinality(Served) - 1
      /\ Cardinality(Served) > 0
  <2>1. Owners \in SUBSET Triggers /\ Served \in SUBSET Triggers
    BY ServedOwn
  <2>2. Cardinality(Served) # 0 /\ Cardinality(Served) \in Nat
    BY <1>3, <2>1, Sizes
  <2> QED
    BY <1>3, <2>1, <2>2, Sizes
<1>7. PICK k : k = RemoveMethodRef(mgr, t)
  OBVIOUS
<1>8. PICK r : r = Release(k)
  OBVIOUS
<1>9. Set(r) /\ conn' = Closing(r, conn) /\ Go(t, "gone", None, None)
  BY <1>1, <1>7, <1>8 DEF Leave
<1>10. /\ k \in ManagerRecord /\ k.closes = None /\ k.current = x
       /\ k.entry[x].refCount = Cardinality(Owners)
       /\ k.entry[x].methodRefs = Cardinality(Served) - 1
       /\ k.entry[x].pendingClose = None /\ k.entry[x].bridge = entry[x].bridge
       /\ k.entry[x] \in Entry
  <2>1. /\ k \in ManagerRecord /\ k.closes = None /\ k.current = mgr.current
        /\ k.entry[k.current] = [mgr.entry[mgr.current] EXCEPT !.methodRefs = @ - 1]
    BY <1>2, <1>3, <1>5, <1>6, <1>7, RemoveMethodRefGives
  <2>2. k.current = x /\ k.entry[x] = [entry[x] EXCEPT !.methodRefs = @ - 1]
    BY <1>2, <1>5, <2>1
  <2>3. k.entry[x] \in Entry
    BY <1>5, <2>1, <2>2 DEF ManagerRecord
  <2> QED
    BY <1>5, <2>1, <2>2, <2>3 DEF Entry
<1>11. conn \in [Bridges -> Conns]
  BY DEF ManagerTypes, ManagerTypeOK, Conns
<1>12. Owners' = Owners \ {t} /\ Served' = Served \ {t}
  BY <1>3, <1>9, GoMoves
<1>13. r \in ManagerRecord /\ r.current = x
  BY <1>5, <1>8, <1>10, ReleaseGives
<1>14. CASE k.entry[x].refCount > 1 \/ k.entry[x].bridge = None
  <2>1. r.closes = None /\ r.entry[x] = [k.entry[x] EXCEPT !.refCount = @ - 1]
    <3>1. ~(k.entry[x].refCount <= 1 /\ k.entry[x].bridge # None)
      BY <1>6, <1>10, <1>14
    <3> QED
      BY <1>5, <1>8, <1>10, <3>1, ReleaseGives
  <2>2. conn' = conn /\ current' = x /\ entry' = r.entry
    BY <1>9, <1>11, <1>13, <2>1, NothingCloses DEF Set
  <2>3. /\ entry'[x].refCount = Cardinality(Owners')
        /\ entry'[x].methodRefs = Cardinality(Served')
        /\ entry'[x].pendingClose = None
        /\ entry'[x].bridge = entry[x].bridge
    BY <1>6, <1>10, <1>12, <2>1, <2>2 DEF Entry
  <2>4. entry'[x].bridge # None => conn'[entry'[x].bridge] = "open"
    BY <1>5, <2>2, <2>3 DEF Straight, BridgesOpen
  <2> QED
    BY <1>3, <1>5, <1>9, <2>2, <2>3, <2>4, Settled
<1>15. CASE k.entry[x].refCount <= 1 /\ k.entry[x].bridge # None
  <2>1. PICK o : o = k.entry[x].bridge
    OBVIOUS
  <2>2. /\ r.closes = o
        /\ r.entry[x] = [bridge |-> None, refCount |-> 0,
                         methodRefs |-> k.entry[x].methodRefs, pendingClose |-> o]
    <3>1. ~(k.entry[x].refCount > 1 \/ k.entry[x].bridge = None)
      BY <1>6, <1>10, <1>15
    <3> QED
      BY <1>5, <1>8, <1>10, <2>1, <3>1, ReleaseGives
  <2>3. o \in Bridges /\ conn[o] = "open"
    <3>1. o \in Bridges /\ o = entry[x].bridge /\ o # None
      BY <1>10, <1>15, <2>1 DEF Entry
    <3> QED
      BY <1>5, <3>1 DEF Straight, BridgesOpen
  <2>4. /\ current' = x /\ entry' = r.entry
        /\ conn'[o] = "closing" /\ \A a \in Bridges : a # o => conn'[a] = conn[a]
        /\ closesFor'[o] = x
    BY <1>9, <1>13, <2>2, <2>3 DEF Set, Closing
  <2>5. Owners' = {} /\ Served' = {}
    <3>1. Cardinality(Owners \ {t}) = 0
      <4>1. Cardinality(Owners \ {t}) \in Nat
        BY <1>6, Sizes
      <4> QED
        BY <1>6, <1>10, <1>15, <4>1
    <3>2. Owners \ {t} = {}
      BY <1>6, <3>1, Sizes
    <3> QED
      BY <1>12, <3>2, ServedOwn
  <2>6. CountsExact'
    <3>1. Cardinality(Served') = k.entry[x].methodRefs
      BY <1>6, <1>10, <1>12
    <3>2. Cardinality(Owners') = 0
      BY <2>5, FS_EmptySet
    <3> QED
      BY <1>5, <2>2, <2>4, <3>1, <3>2 DEF CountsExact
  <2>7. /\ at'[t] = "gone"
        /\ \A v \in Users : v # t => at'[v] = at[v]
    BY <1>3, <1>9, GoMoves
  <2>8. OneEntry'
    <3>1. \A u \in Triggers : at'[u] # "connecting"
      BY <2>5 DEF Owners
    <3>2. Quiet'
      BY <1>3, <2>7 DEF Quiet
    <3>3. \A a \in Bridges : conn'[a] = "closing" => a = o
      BY <1>5, <2>4
    <3>4. entry'[x].pendingClose = o
      BY <2>2, <2>4
    <3> QED
      BY <1>5, <2>4, <2>5, <3>1, <3>2, <3>3, <3>4 DEF OneEntry
  <2>9. BridgesOpen'
    <3>1. entry'[x].bridge = None
      BY <2>2, <2>4
    <3>2. ASSUME NEW v \in Users
          PROVE  /\ at'[v] \in {"idle", "waiting", "resumed"} => conn'[v] = "unused"
                 /\ at'[v] = "connecting" => conn'[v] = "connecting"
      BY <2>3, <2>4, <2>7 DEF Straight, BridgesOpen
    <3> QED
      BY <2>4, <2>5, <3>1, <3>2 DEF BridgesOpen
  <2>10. RequestersExclude'
    BY <2>5 DEF RequestersExclude
  <2> QED
    BY <2>6, <2>8, <2>9, <2>10 DEF Straight
<1> QED
  <2>1. k.entry[x].refCount \in Nat
    BY <1>6, <1>10
  <2> QED
    BY <1>14, <1>15, <2>1

\* An item fails before it has a Bridge, or is done with it.
LEMMA FinishStraight ==
  ASSUME ManagerTypes, ManagerTypes', Straight, NEW u \in Borrowers, Finish(u) \/ ItemThrows(u)
  PROVE  Straight'
<1>1. /\ Quiet /\ Go(u, "gone", None, None)
      /\ UNCHANGED <<current, entry, conn, closesFor>>
  BY DEF Finish, ItemThrows
<1>2. u \in Users /\ u \notin Owners
  BY ServedOwn, NewObjects
<1> QED
  BY <1>1, <1>2, Aside

\* The close is over: nobody owned the Bridge, and the entry of the map stays or goes.
LEMMA CloseDoneStraight ==
  ASSUME ManagerTypes, Straight, NEW b \in Bridges, CloseDone(b)
  PROVE  Straight'
<1>1. PICK mgr : mgr = Manager
  OBVIOUS
<1>2. mgr \in ManagerRecord /\ mgr.closes = None /\ mgr.current = current /\ mgr.entry = entry
  BY <1>1 DEF Manager, ManagerRecord, ManagerTypes, ManagerTypeOK
<1>3. PICK e : e = closesFor[b]
  OBVIOUS
<1>4. /\ conn[b] = "closing" /\ b # None
      /\ e \in Entries /\ current = e /\ e # None /\ entry[e].pendingClose = b
      /\ Owners = {} /\ Served = {}
      /\ entry[e].refCount = Cardinality(Owners) /\ entry[e].methodRefs = Cardinality(Served)
      /\ \A a \in Bridges : conn[a] = "closing" => a = b
  <2>1. conn[b] = "closing" /\ b # None
    BY NewObjects DEF CloseDone
  <2>2. current # None /\ e = current /\ entry[e].pendingClose = b
    BY <1>3, <2>1 DEF Straight, OneEntry
  <2>3. e \in Entries
    BY <1>3, <2>1 DEF ManagerTypes
  <2>4. Owners = {}
    BY <2>1, <2>2 DEF Straight, OneEntry
  <2>5. \A a \in Bridges : conn[a] = "closing" => a = b
    BY <2>2 DEF Straight, OneEntry
  <2> QED
    BY <2>1, <2>2, <2>3, <2>4, <2>5, ServedOwn DEF Straight, CountsExact
<1>5. PICK m : m = [mgr EXCEPT !.entry[e].pendingClose = None]
  OBVIOUS
<1>6. PICK gone : gone = (Unused(m.entry[e]) /\ m.entry[e].bridge = None)
  OBVIOUS
<1>7. PICK n : n = DeleteIf(m, gone)
  OBVIOUS
<1>8. /\ Quiet
      /\ current' = n.current /\ entry' = n.entry
      /\ conn' = [conn EXCEPT ![b] = "closed"]
      /\ closesFor' = [closesFor EXCEPT ![b] = None]
      /\ at' = [u \in Users |-> IF at[u] = "waiting" /\ bridgeOf[u] = b
                                THEN "resumed" ELSE at[u]]
      /\ UNCHANGED <<entryOf, bridgeOf>>
  BY <1>1, <1>3, <1>4, <1>5, <1>6, <1>7 DEF CloseDone
<1>9. PICK x : x = [entry[e] EXCEPT !.pendingClose = None]
  OBVIOUS
<1>10. /\ x \in Entry /\ x.pendingClose = None /\ x.refCount = entry[e].refCount
       /\ x.methodRefs = entry[e].methodRefs /\ x.bridge = entry[e].bridge
  BY <1>2, <1>4, <1>9 DEF ManagerRecord, Entry
<1>11. m = [current |-> e, entry |-> [entry EXCEPT ![e] = x], closes |-> None]
  BY <1>2, <1>4, <1>5, <1>9 DEF ManagerRecord
<1>12. [entry EXCEPT ![e] = x] \in [Entries -> Entry] /\ m.entry[e] = x
  BY <1>2, <1>4, <1>10, <1>11 DEF ManagerRecord
<1>13. m \in ManagerRecord /\ m.current = e
  BY <1>2, <1>4, <1>11, <1>12 DEF ManagerRecord
<1>14. gone \in BOOLEAN
  BY <1>6
<1>15. current' \in {e, None} /\ entry'[e] = x
  BY <1>7, <1>8, <1>12, <1>13, <1>14, DeleteIfGives
<1>16. /\ \A u \in Users : /\ at[u] # "waiting" => at'[u] = at[u]
                           /\ at[u] = "waiting" => at'[u] \in {"waiting", "resumed"}
       /\ conn'[b] = "closed" /\ \A a \in Bridges : a # b => conn'[a] = conn[a]
  BY <1>8 DEF ManagerTypes, ManagerTypeOK
<1>17. Owners' = {} /\ Served' = {}
  BY <1>4, <1>16, NewObjects DEF Owners, Served
<1>18. CountsExact'
  BY <1>4, <1>10, <1>15, <1>17 DEF CountsExact
<1>19. OneEntry'
  <2>1. \A t \in Triggers : at'[t] # "connecting"
    BY <1>17 DEF Owners
  <2>2. \A a \in Bridges : conn'[a] # "closing"
    BY <1>4, <1>16
  <2> QED
    BY <1>10, <1>15, <2>1, <2>2 DEF OneEntry
<1>20. BridgesOpen'
  <2>1. ASSUME NEW v \in Users
        PROVE  /\ at'[v] \in {"idle", "waiting", "resumed"} => conn'[v] = "unused"
               /\ at'[v] = "connecting" => conn'[v] = "connecting"
    BY <1>4, <1>16 DEF Straight, BridgesOpen
  <2>2. ASSUME current' # None, entry'[current'].bridge # None
        PROVE  conn'[entry'[current'].bridge] = "open"
    <3>1. current' = e /\ entry[e].bridge # None /\ entry'[e].bridge = entry[e].bridge
      BY <1>10, <1>15, <2>2
    <3>2. entry[e].bridge \in Bridges /\ conn[entry[e].bridge] = "open"
      BY <1>2, <1>4, <3>1 DEF Straight, BridgesOpen, ManagerRecord, Entry
    <3> QED
      BY <1>4, <1>16, <3>1, <3>2
  <2> QED
    BY <1>17, <2>1, <2>2 DEF BridgesOpen
<1>21. RequestersExclude'
  BY <1>17 DEF RequestersExclude
<1> QED
  BY <1>18, <1>19, <1>20, <1>21 DEF Straight

-----------------------------------------------------------------------------
(* The invariant *)

\* Nobody has come, and there is no entry.
LEMMA InitInv == Init => ManagerInv
<1> SUFFICES ASSUME Init PROVE ManagerInv
  OBVIOUS
<1> USE DEF Init
<1>1. EmptyEntry \in Entry
  BY DEF EmptyEntry, Entry
<1>2. ManagerTypes
  BY <1>1 DEF ManagerTypes, ManagerTypeOK
<1>3. Owners = {} /\ Served = {}
  BY NewObjects DEF Owners, Served
<1>4. CountsExact
  BY <1>3 DEF CountsExact
<1>5. OneEntry
  BY NewObjects DEF OneEntry
<1>6. BridgesOpen
  BY <1>3 DEF BridgesOpen
<1>7. RequestersExclude
  BY <1>3 DEF RequestersExclude
<1> QED
  BY <1>2, <1>4, <1>5, <1>6, <1>7 DEF ManagerInv, Straight

\* A step in which nobody strays keeps the manager straight.
LEMMA StraightStep ==
  ASSUME ManagerTypes, ManagerTypes', Straight, Step, ~Strays
  PROVE  Straight'
<1>1. ASSUME NEW u \in Users, Come(u) PROVE Straight'
  BY <1>1, ComeStraight
<1>2. ASSUME NEW u \in Users, Resume(u) PROVE Straight'
  BY <1>2, ResumeStraight
<1>3. ASSUME NEW u \in Users, ConnectSucceeds(u) PROVE Straight'
  BY <1>3, ConnectSucceedsStraight
<1>4. ASSUME NEW u \in Users, ConnectFails(u) PROVE Straight'
  BY <1>4, ConnectFailsStraight
<1>5. ASSUME NEW t \in Triggers, Registered(t) PROVE Straight'
  BY <1>5, RegisteredStraight
<1>6. ASSUME NEW t \in Triggers, Leave(t) PROVE Straight'
  BY <1>6, LeaveStraight
<1>7. ASSUME NEW u \in Borrowers, Finish(u) \/ ItemThrows(u) PROVE Straight'
  BY <1>7, FinishStraight
<1>8. ASSUME NEW b \in Bridges, CloseDone(b) PROVE Straight'
  BY <1>8, CloseDoneStraight
<1> QED
  BY <1>1, <1>2, <1>3, <1>4, <1>5, <1>6, <1>7, <1>8 DEF Step

\* Every step keeps the invariant: once somebody has strayed, only the types are left.
LEMMA InvStep == ManagerInv /\ [Next]_vars => ManagerInv'
<1> SUFFICES ASSUME ManagerInv, [Next]_vars PROVE ManagerInv'
  OBVIOUS
<1>1. CASE Next
  <2>1. Step /\ strayed' = (strayed \/ Strays)
    BY <1>1 DEF Next
  <2>2. ManagerTypes'
    BY <2>1, TypesStep DEF ManagerInv
  <2>3. strayed' \in BOOLEAN
    BY <2>1
  <2>4. ASSUME ~strayed' PROVE Straight'
    <3>1. ~strayed /\ ~Strays
      BY <2>1, <2>4
    <3> QED
      BY <2>1, <2>2, <3>1, StraightStep DEF ManagerInv
  <2> QED
    BY <2>2, <2>3, <2>4 DEF ManagerInv
<1>2. CASE UNCHANGED vars
  <2>1. UNCHANGED <<current, entry, conn, closesFor, at, entryOf, bridgeOf, strayed>>
    BY <1>2 DEF vars, managerVars
  <2>2. Owners' = Owners /\ Served' = Served
    BY <2>1 DEF Owners, Served
  <2>3. CountsExact' = CountsExact
    BY <2>1, <2>2 DEF CountsExact
  <2>4. OneEntry' = OneEntry
    BY <2>1, <2>2 DEF OneEntry, Quiet
  <2>5. BridgesOpen' = BridgesOpen /\ RequestersExclude' = RequestersExclude
    BY <2>1, <2>2 DEF BridgesOpen, RequestersExclude
  <2>6. ManagerTypes' = ManagerTypes
    BY <2>1 DEF ManagerTypes, ManagerTypeOK
  <2> QED
    BY <2>1, <2>3, <2>4, <2>5, <2>6 DEF ManagerInv, Straight
<1> QED
  BY <1>1, <1>2

\* The manager's invariant: its types, and, as long as nobody has gone on with an entry that
\* the map had dropped, exact counts, one entry, open Bridges and one trigger in Request mode.
THEOREM ManagerInvariant == Spec => []ManagerInv
BY InitInv, InvStep, PTL DEF Spec

\* refCount is the number of the triggers that own the Bridge, whichever way they came, failed
\* and left, and methodRefs that of those among them that have got it.
THEOREM OwnersCount == Spec => []OwnersCounted
<1>1. ASSUME ManagerInv PROVE OwnersCounted
  <2>1. {t \in Owners : at[t] # "connecting"} = Served
    BY DEF Owners, Served
  <2> QED
    BY <1>1, <2>1 DEF ManagerInv, ManagerTypes, Straight, CountsExact, OwnersCounted
<1> QED
  BY <1>1, ManagerInvariant, PTL

\* A method never has two triggers in Request mode.
THEOREM OneRequesterServed == Spec => []OneRequester
<1>1. ASSUME ManagerInv PROVE OneRequester
  <2>1. PICK S : S = {t \in Requesters : at[t] \in {"registering", "active"}}
    OBVIOUS
  <2>2. CASE S = {}
    BY <2>1, <2>2, FS_EmptySet DEF OneRequester
  <2>3. ASSUME NEW x \in S, ~strayed PROVE Cardinality(S) <= 1
    <3>1. S = {x}
      BY <1>1, <2>1, <2>3, NewObjects DEF ManagerInv, Straight, RequestersExclude, Served
    <3> QED
      BY <3>1, FS_Singleton
  <2> QED
    BY <2>1, <2>2, <2>3 DEF OneRequester
<1> QED
  BY <1>1, ManagerInvariant, PTL
================================================================================
