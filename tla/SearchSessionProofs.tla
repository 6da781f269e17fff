------------------------ MODULE SearchSessionProofs ------------------------
(***************************************************************************)
(* Proofs about SearchSession, for any number of tabs, tests and sessions. *)
(*                                                                         *)
(* SessionState caches what it reads, so a page can be out of step with    *)
(* the storage for ever.  What keeps it right is that its cache is settled *)
(* once the page is set up: it holds an end, and a session id if that end  *)
(* is in the future.  From then on whether the page is in a session, and   *)
(* in which one, is told by the cache alone, whatever other tabs write.    *)
(***************************************************************************)
EXTENDS SearchSession, TLAPS

(***************************************************************************)
(* The inductive invariant.  c is a cache, st a storage, p a page; x and u *)
(* stand for extended and used.                                            *)
(***************************************************************************)
SubTest == Test \cup {"pending", "mismatch", NULL}
Value == Nat \cup SubTest \cup {MISSING}
Worlds == [cache : [Key -> Value], store : [Key -> Value]]

CacheType(c, u) ==
    /\ c \in [Key -> Value]
    /\ c.end \in Nat \cup {NULL, MISSING}
    /\ c.sid \in 1..u \cup {NULL, MISSING}
    /\ c.sub \in SubTest \cup {MISSING}

StoreType(st, u) ==
    /\ st \in [Key -> Value]
    /\ st.end \in Nat \cup {NULL}
    /\ st.sid \in 1..u \cup {NULL}
    /\ st.sub \in SubTest

(* The end in the storage is that of the session in the storage.           *)
StoreInv(st, x, u) ==
    /\ StoreType(st, u)
    /\ st.end # NULL /\ st.sid # NULL => st.end <= x[st.sid] + TTL

Settled(c) == c.end # MISSING /\ (Future(c.end) => c.sid # MISSING)

InSession(c) == Future(c.end) /\ c.sid # NULL

(* Every set of failures lets subTest be stored.                           *)
SubTestKept == \A fail \in Failures : "sub" \notin fail

Current(c, x, u) ==
    InSession(c) =>
        /\ c.sid \in 1..u
        /\ c.end <= x[c.sid] + TTL
        /\ SubTestKept => c.sub \notin {NULL, MISSING}

Agrees(c, loggers) == InSession(c) => \A s \in Source : loggers[s] \in {NULL, c.sid}

Page ==
    [ kind    : {"closed"} \cup PageKind,
      test    : Test \cup {NULL},
      made    : BOOLEAN,
      cache   : [Key -> Value],
      setups  : SUBSET Source,
      logger  : [Source -> Session \cup {NULL}],
      request : Test \cup {NULL} ]

PageInv(p, x, u) ==
    /\ p \in Page
    /\ CacheType(p.cache, u)
    /\ ~p.made => /\ p.cache = [k \in Key |-> MISSING]
                  /\ p.logger = [s \in Source |-> NULL]
                  /\ p.request = NULL
    /\ p.made => Settled(p.cache) /\ Current(p.cache, x, u) /\ Agrees(p.cache, p.logger)

EventInv(e, x) ==
    e.action # "checkin" =>
        /\ e.sid \in Session
        /\ now < x[e.sid] + TTL
        /\ SubTestKept => e.sub # NULL

CountersType ==
    /\ now \in Nat
    /\ backend \in Test
    /\ used \in 0..MaxSessions
    /\ extended \in [Session -> Nat]
    /\ \A s \in Session : extended[s] <= now

IInv ==
    /\ CountersType
    /\ StoreInv(store, extended, used)
    /\ tab \in [Tab -> Page]
    /\ \A t \in Tab : PageInv(tab[t], extended, used)
    /\ \A e \in out : EventInv(e, extended)

(***************************************************************************)
(* SessionState                                                            *)
(***************************************************************************)
LEMMA Constants ==
    /\ TTL \in Nat /\ TTL > 0 /\ MaxSessions \in Nat /\ MaxNow \in Nat
    /\ NULL # MISSING /\ NULL \notin Int /\ MISSING \notin Int
    /\ NULL \notin Test /\ MISSING \notin SubTest
    /\ "pending" # NULL /\ "mismatch" # NULL
    /\ NULL \in Value /\ MISSING \in Value /\ SubTest \subseteq Value /\ Nat \subseteq Value
    /\ "end" \in Key /\ "sid" \in Key /\ "sub" \in Key
  <1>1. /\ TTL \in Nat /\ TTL > 0 /\ MaxSessions \in Nat /\ MaxNow \in Nat
        /\ NULL # MISSING /\ NULL \notin Int /\ MISSING \notin Int
    BY SessionAssumption
  <1>2. NULL \notin Test /\ MISSING \notin Test
    BY SessionAssumption
  <1>3. NULL # "pending" /\ NULL # "mismatch" /\ MISSING # "pending" /\ MISSING # "mismatch"
    BY SessionAssumption
  <1>4. MISSING \notin SubTest
    BY <1>1, <1>2, <1>3 DEF SubTest
  <1>5. NULL \in Value /\ MISSING \in Value /\ SubTest \subseteq Value /\ Nat \subseteq Value
    BY DEF SubTest, Value
  <1>6. "end" \in Key /\ "sid" \in Key /\ "sub" \in Key
    BY DEF Key
  <1> QED
    BY <1>1, <1>2, <1>3, <1>4, <1>5, <1>6

LEMMA ReadFacts ==
    ASSUME NEW w \in Worlds, NEW key \in Key
    PROVE  /\ Read(w, key) \in Worlds
           /\ Read(w, key).store = w.store
           /\ w.cache[key] = MISSING => Read(w, key).cache[key] = w.store[key]
           /\ w.cache[key] # MISSING => Read(w, key) = w
           /\ \A k \in Key : k # key => Read(w, key).cache[k] = w.cache[k]
  BY DEF Read, Worlds

LEMMA SetFacts ==
    ASSUME NEW w \in Worlds, NEW key \in Key, NEW value \in Value, NEW fail
    PROVE  /\ Set(w, key, value, fail) \in Worlds
           /\ key \in fail => Set(w, key, value, fail) = w
           /\ key \notin fail => /\ Set(w, key, value, fail).cache[key] = value
                                 /\ Set(w, key, value, fail).store[key] = value
           /\ \A k \in Key : k # key => /\ Set(w, key, value, fail).cache[k] = w.cache[k]
                                        /\ Set(w, key, value, fail).store[k] = w.store[k]
  BY DEF Set, Worlds

(* isActive() settles the cache, and answers by what it holds then.        *)
LEMMA LookFacts ==
    ASSUME NEW w \in Worlds, w.store.end # MISSING, w.store.sid # MISSING
    PROVE  /\ Look(w) \in Worlds
           /\ Look(w).store = w.store
           /\ Settled(Look(w).cache)
           /\ isActive(w) <=> InSession(Look(w).cache)
           /\ Look(w).cache.sub = w.cache.sub
           /\ Look(w).cache.end = IF w.cache.end = MISSING THEN w.store.end ELSE w.cache.end
           /\ Future(Look(w).cache.end) =>
                 Look(w).cache.sid = IF w.cache.sid = MISSING THEN w.store.sid ELSE w.cache.sid
           /\ ~Future(Look(w).cache.end) => Look(w).cache.sid = w.cache.sid
  <1> DEFINE r == Read(w, "end")
             q == Read(r, "sid")
  <1>1. /\ r \in Worlds /\ r.store = w.store
        /\ r.cache.end = IF w.cache.end = MISSING THEN w.store.end ELSE w.cache.end
        /\ r.cache.sid = w.cache.sid /\ r.cache.sub = w.cache.sub
    BY ReadFacts DEF Key
  <1>2. /\ q \in Worlds /\ q.store = r.store
        /\ q.cache.sid = IF r.cache.sid = MISSING THEN r.store.sid ELSE r.cache.sid
        /\ q.cache.end = r.cache.end /\ q.cache.sub = r.cache.sub
    <2>1. "sid" \in Key /\ "end" \in Key /\ "sub" \in Key /\ "end" # "sid" /\ "sub" # "sid"
      BY DEF Key
    <2> HIDE DEF r
    <2> QED
      BY <1>1, <2>1, ReadFacts
  <1>3. Look(w) = IF Future(r.cache.end) THEN q ELSE r
    BY DEF Look
  <1>4. isActive(w) <=> Future(Look(w).cache.end) /\ Look(w).cache.sid # NULL
    BY DEF isActive
  <1> HIDE DEF r, q
  <1>5. CASE Future(r.cache.end)
    BY <1>1, <1>2, <1>3, <1>4, <1>5 DEF Settled, InSession
  <1>6. CASE ~Future(r.cache.end)
    BY <1>1, <1>3, <1>4, <1>6 DEF Settled, InSession
  <1> QED
    BY <1>5, <1>6

LEMMA SettledLook ==
    ASSUME NEW w, Settled(w.cache)
    PROVE  Look(w) = w /\ (isActive(w) <=> InSession(w.cache))
  BY DEF Look, isActive, Read, Settled, InSession

(* The subTest part of initialize() touches neither end nor session id,    *)
(* and leaves an answer in the cache that is not null if it can be stored. *)
LEMMA ChooseFacts ==
    ASSUME NEW w \in Worlds, NEW test \in Test \cup {NULL}, NEW fail \in Failures,
           w.cache.sub \in SubTest \cup {MISSING}, w.store.sub \in SubTest
    PROVE  LET r == chooseSubTest(w, test, fail)
           IN  /\ r \in Worlds
               /\ r.cache.end = w.cache.end /\ r.cache.sid = w.cache.sid
               /\ r.store.end = w.store.end /\ r.store.sid = w.store.sid
               /\ r.cache.sub \in SubTest /\ r.store.sub \in SubTest
               /\ SubTestKept => r.cache.sub # NULL
  <1> DEFINE q == Read(w, "sub")
             value == IF test # NULL THEN test ELSE "pending"
             r == chooseSubTest(w, test, fail)
  <1>1. "end" \in Key /\ "sid" \in Key /\ "sub" \in Key /\ "end" # "sub" /\ "sid" # "sub"
    BY DEF Key
  <1>2. /\ q \in Worlds /\ q.store = w.store
        /\ q.cache.end = w.cache.end /\ q.cache.sid = w.cache.sid
        /\ q.cache.sub \in SubTest
    <2>1. q.cache.sub = IF w.cache.sub = MISSING THEN w.store.sub ELSE w.cache.sub
      BY <1>1, ReadFacts
    <2> QED
      BY <1>1, <2>1, ReadFacts, Constants
  <1>3. value \in SubTest /\ value # NULL /\ "mismatch" \in SubTest /\ "mismatch" # NULL
    BY Constants DEF SubTest
  <1>4. r = IF Unsettled(q.cache.sub) THEN Set(q, "sub", value, fail)
            ELSE IF test \notin {NULL, q.cache.sub} THEN Set(q, "sub", "mismatch", fail)
            ELSE q
    BY DEF chooseSubTest
  <1> HIDE DEF q, value, r
  <1>5. ASSUME NEW v \in SubTest, v # NULL
        PROVE  LET p == Set(q, "sub", v, fail)
               IN  /\ p \in Worlds
                   /\ p.cache.end = q.cache.end /\ p.cache.sid = q.cache.sid
                   /\ p.store.end = q.store.end /\ p.store.sid = q.store.sid
                   /\ p.cache.sub \in SubTest /\ p.store.sub \in SubTest
                   /\ SubTestKept => p.cache.sub # NULL
    <2> DEFINE p == Set(q, "sub", v, fail)
    <2>1. v \in Value
      BY Constants
    <2>2. /\ p \in Worlds
          /\ "sub" \in fail => p = q
          /\ "sub" \notin fail => p.cache["sub"] = v /\ p.store["sub"] = v
          /\ \A k \in Key : k # "sub" => p.cache[k] = q.cache[k] /\ p.store[k] = q.store[k]
      BY <1>1, <1>2, <2>1, SetFacts
    <2> HIDE DEF p
    <2>3. /\ p.cache.end = q.cache.end /\ p.cache.sid = q.cache.sid
          /\ p.store.end = q.store.end /\ p.store.sid = q.store.sid
      BY <1>1, <2>2
    <2>4. /\ p.cache.sub \in SubTest /\ p.store.sub \in SubTest
          /\ SubTestKept => p.cache.sub # NULL
      <3>1. CASE "sub" \in fail
        BY <1>2, <2>2, <3>1 DEF SubTestKept
      <3>2. CASE "sub" \notin fail
        BY <1>5, <2>2, <3>2
      <3> QED
        BY <3>1, <3>2
    <2> QED
      BY <2>2, <2>3, <2>4 DEF p
  <1>6. CASE Unsettled(q.cache.sub)
    BY <1>2, <1>3, <1>4, <1>5, <1>6 DEF r
  <1>7. CASE ~Unsettled(q.cache.sub) /\ test \notin {NULL, q.cache.sub}
    BY <1>2, <1>3, <1>4, <1>5, <1>7 DEF r
  <1>8. CASE ~Unsettled(q.cache.sub) /\ test \in {NULL, q.cache.sub}
    BY <1>2, <1>4, <1>8 DEF r, Unsettled
  <1> QED
    BY <1>6, <1>7, <1>8

LEMMA InvalidatedFacts ==
    /\ Invalidated \in Worlds
    /\ \A k \in Key : Invalidated.cache[k] = MISSING /\ Invalidated.store[k] = NULL
    /\ \A x, u : StoreInv(Invalidated.store, x, u)
  <1>1. Invalidated \in Worlds
    BY Constants DEF Invalidated, Worlds
  <1>2. \A k \in Key : Invalidated.cache[k] = MISSING /\ Invalidated.store[k] = NULL
    BY DEF Invalidated
  <1>3. \A x, u : StoreInv(Invalidated.store, x, u)
    BY <1>1, <1>2 DEF StoreInv, StoreType, Worlds, Key, SubTest
  <1> QED
    BY <1>1, <1>2, <1>3

(***************************************************************************)
(* What a handler makes of a page and the storage: the page has its        *)
(* session constructed, and both are in order for the new values x and u   *)
(* of extended and used.                                                   *)
(***************************************************************************)
WorldInv(w, x, u) ==
    /\ w \in Worlds
    /\ CacheType(w.cache, u) /\ StoreInv(w.store, x, u)
    /\ Settled(w.cache) /\ Current(w.cache, x, u)

(* A look at subTest, as logEvent does it.                                 *)
LEMMA ReadSubTest ==
    ASSUME NEW w, NEW x, NEW u, WorldInv(w, x, u)
    PROVE  LET r == Read(w, "sub")
           IN  /\ WorldInv(r, x, u)
               /\ r.store = w.store
               /\ r.cache.end = w.cache.end /\ r.cache.sid = w.cache.sid
               /\ r.cache.sub \in SubTest
               /\ InSession(w.cache) /\ SubTestKept => r.cache.sub # NULL
  <1> DEFINE r == Read(w, "sub")
  <1>1. "end" \in Key /\ "sid" \in Key /\ "sub" \in Key /\ "end" # "sub" /\ "sid" # "sub"
    BY DEF Key
  <1>2. w \in Worlds /\ w.store.sub \in SubTest /\ w.cache.sub \in SubTest \cup {MISSING}
    BY DEF WorldInv, StoreInv, StoreType, CacheType
  <1>3. /\ r \in Worlds /\ r.store = w.store
        /\ w.cache["sub"] = MISSING => r.cache["sub"] = w.store["sub"]
        /\ w.cache["sub"] # MISSING => r = w
        /\ \A k \in Key : k # "sub" => r.cache[k] = w.cache[k]
    BY <1>1, <1>2, ReadFacts
  <1> HIDE DEF r
  <1>4. r.cache.end = w.cache.end /\ r.cache.sid = w.cache.sid /\ r.cache.sub \in SubTest
    BY <1>1, <1>2, <1>3
  <1>5. CacheType(r.cache, u) /\ StoreInv(r.store, x, u) /\ Settled(r.cache)
    BY <1>3, <1>4 DEF WorldInv, CacheType, Settled, Worlds
  <1>6. Current(r.cache, x, u) /\ (InSession(w.cache) /\ SubTestKept => r.cache.sub # NULL)
    BY <1>3, <1>4 DEF WorldInv, Current, InSession
  <1> QED
    BY <1>3, <1>4, <1>5, <1>6 DEF WorldInv, r

(* The times x when __EndTime__ was written, once it is written for s.     *)
Stamped(x, s) == IF s \in Session THEN [x EXCEPT ![s] = now] ELSE x

Times(x) == x \in [Session -> Nat] /\ \A s \in Session : x[s] <= now

LEMMA StampedFacts ==
    ASSUME now \in Nat, NEW x, Times(x), NEW s
    PROVE  /\ Times(Stamped(x, s))
           /\ \A q \in Session : x[q] <= Stamped(x, s)[q]
           /\ s \in Session => Stamped(x, s)[s] = now
  BY DEF Stamped, Times

(* A session is in order for later times and more sessions too.            *)
LEMMA CurrentLater ==
    ASSUME NEW x, NEW y, NEW u \in 0..MaxSessions, NEW v \in 0..MaxSessions,
           Times(x), Times(y), \A s \in Session : x[s] <= y[s], u <= v,
           NEW c, CacheType(c, u), Settled(c), Current(c, x, u)
    PROVE  CacheType(c, v) /\ Current(c, y, v)
  <1>1. u \in Nat /\ v \in Nat /\ 1..u \subseteq 1..v /\ 1..u \subseteq Session
    BY Constants DEF Session
  <1>2. CacheType(c, v)
    BY <1>1 DEF CacheType
  <1>3. ASSUME InSession(c) PROVE c.end <= y[c.sid] + TTL
    <2>1. c.end \in Nat /\ c.sid \in Session /\ c.end <= x[c.sid] + TTL
      BY <1>1, <1>3 DEF CacheType, Settled, Current, InSession, Future
    <2>2. x[c.sid] \in Nat /\ y[c.sid] \in Nat /\ x[c.sid] <= y[c.sid]
      BY <2>1 DEF Times
    <2> QED
      BY <2>1, <2>2, Constants
  <1> QED
    BY <1>1, <1>2, <1>3 DEF Current

(* refresh() extends the session that the storage holds, which may be      *)
(* another one than the page is in.                                        *)
LEMMA RefreshInSession ==
    ASSUME now \in Nat, NEW x, Times(x), NEW u \in 0..MaxSessions, NEW w, WorldInv(w, x, u),
           InSession(w.cache), NEW fail
    PROVE  LET r == refresh(w, fail)
               y == IF "end" \in fail THEN x ELSE Stamped(x, w.store.sid)
           IN  WorldInv(r, y, u) /\ r.cache = w.cache
  <1>1. /\ w \in Worlds /\ CacheType(w.cache, u) /\ Settled(w.cache) /\ Current(w.cache, x, u)
        /\ StoreInv(w.store, x, u)
    BY DEF WorldInv
  <1>2. Look(w) = w /\ isActive(w)
    BY <1>1, SettledLook
  <1>3. CASE "end" \in fail
    BY <1>2, <1>3 DEF refresh
  <1>4. CASE "end" \notin fail
    <2> DEFINE r == [w EXCEPT !.store.end = now + TTL]
               y == Stamped(x, w.store.sid)
    <2>1. refresh(w, fail) = r
      BY <1>2, <1>4 DEF refresh
    <2>2. /\ r \in Worlds /\ r.cache = w.cache
          /\ r.store.end = now + TTL /\ r.store.sid = w.store.sid /\ r.store.sub = w.store.sub
      <3>1. now + TTL \in Value
        BY Constants
      <3>2. r \in Worlds
        BY <1>1, <3>1 DEF Worlds
      <3>3. r.cache = w.cache /\ r.store = [w.store EXCEPT !["end"] = now + TTL]
        BY <1>1 DEF Worlds
      <3> QED
        BY <1>1, <3>2, <3>3 DEF Worlds, Key
    <2>3. /\ Times(y) /\ \A s \in Session : x[s] <= y[s]
          /\ w.store.sid \in Session => y[w.store.sid] = now
      BY StampedFacts
    <2> HIDE DEF r, y
    <2>4. Current(w.cache, y, u)
      BY <1>1, <2>3, CurrentLater, Constants
    <2>5. StoreInv(r.store, y, u)
      <3>1. now + TTL \in Nat /\ w.store.sid \in 1..u \cup {NULL} /\ w.store.sub \in SubTest
        BY <1>1, Constants DEF StoreInv, StoreType
      <3>2. r.store.sid # NULL => r.store.sid \in Session
        BY <2>2, <3>1, Constants DEF Session
      <3> QED
        BY <2>2, <2>3, <3>1, <3>2 DEF StoreInv, StoreType, Worlds
    <2> QED
      BY <1>1, <1>4, <2>1, <2>2, <2>4, <2>5 DEF WorldInv, y
  <1> QED
    BY <1>1, <1>3, <1>4

(* A page that has lost its session gives up the one in the storage too,   *)
(* and finds none when it looks again.                                     *)
LEMMA LookInvalidated ==
    ASSUME NEW x, NEW u
    PROVE  /\ WorldInv(Look(Invalidated), x, u)
           /\ ~InSession(Look(Invalidated).cache)
           /\ ~isActive(Invalidated)
           /\ Look(Invalidated).store = Invalidated.store
  <1> DEFINE w == Invalidated
  <1>1. /\ w \in Worlds
        /\ w.cache.end = MISSING /\ w.cache.sid = MISSING /\ w.cache.sub = MISSING
        /\ w.store.end = NULL /\ w.store.sid = NULL /\ w.store.sub = NULL
        /\ StoreInv(w.store, x, u)
    BY InvalidatedFacts DEF Key
  <1> HIDE DEF w
  <1>2. /\ Look(w) \in Worlds
        /\ Look(w).store = w.store
        /\ Settled(Look(w).cache)
        /\ isActive(w) <=> InSession(Look(w).cache)
        /\ Look(w).cache.sub = w.cache.sub
        /\ Look(w).cache.end = IF w.cache.end = MISSING THEN w.store.end ELSE w.cache.end
        /\ Future(Look(w).cache.end) =>
              Look(w).cache.sid = IF w.cache.sid = MISSING THEN w.store.sid ELSE w.cache.sid
        /\ ~Future(Look(w).cache.end) => Look(w).cache.sid = w.cache.sid
    BY <1>1, LookFacts, Constants
  <1>3. Look(w).cache.end = NULL /\ Look(w).cache.sid = MISSING
    BY <1>1, <1>2 DEF Future
  <1>4. ~InSession(Look(w).cache)
    BY <1>3 DEF InSession, Future
  <1>5. CacheType(Look(w).cache, u)
    BY <1>1, <1>2, <1>3 DEF CacheType, Worlds
  <1>6. Current(Look(w).cache, x, u)
    BY <1>4 DEF Current
  <1> QED
    BY <1>1, <1>2, <1>4, <1>5, <1>6 DEF WorldInv, w

(***************************************************************************)
(* initialize(), and the look that genLogEventFn and isActive() take next  *)
(***************************************************************************)
Begun(w, fail) == ~isActive(w) /\ fail \cap {"end", "sid"} = {}

UsedThen(w, fail) == IF Begun(w, fail) THEN used + 1 ELSE used

ExtendedThen(w, fail) == IF Begun(w, fail) THEN Stamped(extended, used + 1) ELSE extended

Unread(w) == w.cache.end = MISSING /\ w.cache.sid = MISSING /\ w.cache.sub = MISSING

(* The page joins the session in the storage.                              *)
LEMMA JoinFacts ==
    ASSUME NEW w \in Worlds, Unread(w), StoreInv(w.store, extended, used), isActive(w),
           NEW test \in Test \cup {NULL}, NEW fail \in Failures
    PROVE  LET v == initialize(w, used + 1, test, fail)
           IN  /\ WorldInv(Look(v), extended, used)
               /\ isActive(v) <=> InSession(Look(v).cache)
               /\ Look(v).store.sid = w.store.sid
  <1> DEFINE l == Look(w)
             v == chooseSubTest(l, test, fail)
  <1>1. /\ w.store.end \in Nat \cup {NULL} /\ w.store.sid \in 1..used \cup {NULL}
        /\ w.store.sub \in SubTest
        /\ w.store.end # MISSING /\ w.store.sid # MISSING
    BY Constants DEF StoreInv, StoreType
  <1>2. /\ l \in Worlds
        /\ l.store = w.store
        /\ Settled(l.cache)
        /\ isActive(w) <=> InSession(l.cache)
        /\ l.cache.sub = w.cache.sub
        /\ l.cache.end = IF w.cache.end = MISSING THEN w.store.end ELSE w.cache.end
        /\ Future(l.cache.end) =>
              l.cache.sid = IF w.cache.sid = MISSING THEN w.store.sid ELSE w.cache.sid
        /\ ~Future(l.cache.end) => l.cache.sid = w.cache.sid
    BY <1>1, LookFacts
  <1>3. /\ InSession(l.cache) /\ l.cache.end = w.store.end /\ l.cache.sid = w.store.sid
        /\ l.cache.sub = MISSING
    BY <1>2 DEF Unread, InSession
  <1>4. initialize(w, used + 1, test, fail) = v
    BY DEF initialize
  <1> HIDE DEF l, v
  <1>5. /\ v \in Worlds
        /\ v.cache.end = l.cache.end /\ v.cache.sid = l.cache.sid
        /\ v.store.end = l.store.end /\ v.store.sid = l.store.sid
        /\ v.cache.sub \in SubTest /\ v.store.sub \in SubTest
        /\ SubTestKept => v.cache.sub # NULL
    BY <1>1, <1>2, <1>3, ChooseFacts DEF v
  <1>6. Settled(v.cache) /\ InSession(v.cache)
    BY <1>2, <1>3, <1>5 DEF Settled, InSession
  <1>7. Look(v) = v /\ (isActive(v) <=> InSession(v.cache))
    BY <1>6, SettledLook
  <1>8. StoreInv(v.store, extended, used)
    BY <1>2, <1>5 DEF StoreInv, StoreType, Worlds
  <1>9. CacheType(v.cache, used)
    BY <1>1, <1>3, <1>5 DEF CacheType, Worlds
  <1>10. Current(v.cache, extended, used)
    <2>1. w.store.end # NULL /\ w.store.sid # NULL
      BY <1>3 DEF InSession, Future
    <2>2. w.store.end <= extended[w.store.sid] + TTL
      BY <2>1 DEF StoreInv
    <2> QED
      BY <1>1, <1>3, <1>5, <2>1, <2>2, Constants DEF Current
  <1> QED
    BY <1>2, <1>4, <1>5, <1>6, <1>7, <1>8, <1>9, <1>10 DEF WorldInv

(* The page starts a session, whose id is new.                             *)
LEMMA StartFacts ==
    ASSUME CountersType, NEW w, ~isActive(w), used < MaxSessions,
           NEW test \in Test \cup {NULL}, NEW fail \in Failures, fail \cap {"end", "sid"} = {}
    PROVE  LET v == initialize(w, used + 1, test, fail)
           IN  /\ WorldInv(Look(v), Stamped(extended, used + 1), used + 1)
               /\ isActive(v) <=> InSession(Look(v).cache)
               /\ Look(v).store.sid = used + 1
  <1> DEFINE begin == startSession(used + 1)
             v == chooseSubTest(begin, test, fail)
             x == Stamped(extended, used + 1)
  <1>1. /\ used \in Nat /\ used + 1 \in Nat /\ used + 1 \in 1 .. used + 1 /\ used + 1 \in Session
        /\ now \in Nat /\ now + TTL \in Nat /\ now + TTL > now
    BY Constants DEF CountersType, Session
  <1>2. x[used + 1] = now
    BY <1>1, StampedFacts DEF CountersType, Times
  <1>3. /\ begin \in Worlds
        /\ begin.cache.end = MISSING /\ begin.cache.sid = MISSING /\ begin.cache.sub = MISSING
        /\ begin.store.end = now + TTL /\ begin.store.sid = used + 1 /\ begin.store.sub = NULL
    <2> DEFINE st == [Invalidated.store EXCEPT !["end"] = now + TTL, !["sid"] = used + 1]
    <2>1. Invalidated \in Worlds /\ \A k \in Key : Invalidated.cache[k] = MISSING /\ Invalidated.store[k] = NULL
      BY InvalidatedFacts
    <2>2. st \in [Key -> Value]
      <3>1. now + TTL \in Value /\ used + 1 \in Value
        BY <1>1, Constants
      <3>2. Invalidated.store \in [Key -> Value]
        BY <2>1 DEF Worlds
      <3> QED
        BY <3>1, <3>2
    <2>3. st["end"] = now + TTL /\ st["sid"] = used + 1 /\ st["sub"] = NULL
      BY <2>1 DEF Key, Worlds
    <2>4. begin.store = st /\ begin.cache = Invalidated.cache /\ begin \in [cache : [Key -> Value], store : [Key -> Value]]
      BY <2>1, <2>2 DEF startSession, Worlds
    <2> HIDE DEF st, begin
    <2> QED
      BY <2>1, <2>3, <2>4 DEF Worlds, Key
  <1>4. initialize(w, used + 1, test, fail) = v
    BY DEF initialize
  <1> HIDE DEF begin, v, x
  <1>5. /\ v \in Worlds
        /\ v.cache.end = begin.cache.end /\ v.cache.sid = begin.cache.sid
        /\ v.store.end = begin.store.end /\ v.store.sid = begin.store.sid
        /\ v.cache.sub \in SubTest /\ v.store.sub \in SubTest
        /\ SubTestKept => v.cache.sub # NULL
    <2>1. begin.cache.sub \in SubTest \cup {MISSING} /\ begin.store.sub \in SubTest
      BY <1>3 DEF SubTest
    <2> QED
      BY <1>3, <2>1, ChooseFacts DEF v
  <1>6. v.store.end # MISSING /\ v.store.sid # MISSING
    BY <1>1, <1>3, <1>5, Constants
  <1>7. /\ Look(v) \in Worlds
        /\ Look(v).store = v.store
        /\ Settled(Look(v).cache)
        /\ isActive(v) <=> InSession(Look(v).cache)
        /\ Look(v).cache.sub = v.cache.sub
        /\ Look(v).cache.end = IF v.cache.end = MISSING THEN v.store.end ELSE v.cache.end
        /\ Future(Look(v).cache.end) =>
              Look(v).cache.sid = IF v.cache.sid = MISSING THEN v.store.sid ELSE v.cache.sid
        /\ ~Future(Look(v).cache.end) => Look(v).cache.sid = v.cache.sid
    BY <1>5, <1>6, LookFacts
  <1>8. Look(v).cache.end = now + TTL /\ Look(v).cache.sid = used + 1
    <2>1. Look(v).cache.end = now + TTL
      BY <1>3, <1>5, <1>7
    <2>2. Future(Look(v).cache.end)
      BY <1>1, <2>1, Constants DEF Future
    <2> QED
      BY <1>3, <1>5, <1>7, <2>1, <2>2
  <1>9. CacheType(Look(v).cache, used + 1)
    BY <1>1, <1>5, <1>7, <1>8 DEF CacheType, Worlds
  <1>10. StoreInv(v.store, x, used + 1)
    <2>1. StoreType(v.store, used + 1)
      BY <1>1, <1>3, <1>5 DEF StoreType, Worlds
    <2>2. v.store.end <= x[v.store.sid] + TTL
      BY <1>1, <1>2, <1>3, <1>5, Constants
    <2> QED
      BY <2>1, <2>2 DEF StoreInv
  <1>11. Current(Look(v).cache, x, used + 1)
    BY <1>1, <1>2, <1>5, <1>7, <1>8, Constants DEF Current
  <1> QED
    BY <1>3, <1>4, <1>5, <1>7, <1>9, <1>10, <1>11 DEF WorldInv, x

LEMMA InitializeFacts ==
    ASSUME CountersType, NEW w \in Worlds, Unread(w), StoreInv(w.store, extended, used),
           ~isActive(w) => used < MaxSessions,
           NEW test \in Test \cup {NULL}, NEW fail \in Failures
    PROVE  LET v == initialize(w, used + 1, test, fail)
           IN  /\ WorldInv(Look(v), ExtendedThen(w, fail), UsedThen(w, fail))
               /\ isActive(v) <=> InSession(Look(v).cache)
               /\ InSession(Look(v).cache) /\ ~Begun(w, fail) => Look(v).store.sid = w.store.sid
               /\ Begun(w, fail) => Look(v).store.sid = used + 1
  <1>1. CASE isActive(w)
    BY <1>1, JoinFacts DEF Begun, UsedThen, ExtendedThen
  <1>2. CASE Begun(w, fail)
    BY <1>2, StartFacts DEF Begun, UsedThen, ExtendedThen
  <1>3. CASE ~isActive(w) /\ ~Begun(w, fail)
    <2>1. initialize(w, used + 1, test, fail) = Invalidated
      BY <1>3 DEF initialize, Begun
    <2> QED
      BY <1>3, <2>1, LookInvalidated DEF UsedThen, ExtendedThen
  <1> QED
    BY <1>1, <1>2, <1>3 DEF Begun

(***************************************************************************)
(* What a step of a tab leaves                                             *)
(***************************************************************************)
(* An event that is not a checkin is logged in the session that the page   *)
(* is in, if its logger captured the id of that one.                       *)
LEMMA LogFacts ==
    ASSUME now \in Nat, NEW x, Times(x), NEW u \in 0..MaxSessions, NEW w, WorldInv(w, x, u),
           NEW t, NEW id, NEW action, InSession(w.cache) => id = w.cache.sid
    PROVE  /\ WorldInv(AfterLog(w, action), x, u)
           /\ AfterLog(w, action).store = w.store
           /\ AfterLog(w, action).cache.end = w.cache.end
           /\ AfterLog(w, action).cache.sid = w.cache.sid
           /\ \A e \in logEvent(w, t, id, action) : EventInv(e, x)
  <1> DEFINE r == Read(w, "sub")
             event == [tab |-> t, action |-> action, sid |-> id, sub |-> r.cache.sub]
  <1>1. Look(w) = w /\ (isActive(w) <=> InSession(w.cache))
    BY SettledLook DEF WorldInv
  <1>2. /\ WorldInv(r, x, u)
        /\ r.store = w.store
        /\ r.cache.end = w.cache.end /\ r.cache.sid = w.cache.sid
        /\ r.cache.sub \in SubTest
        /\ InSession(w.cache) /\ SubTestKept => r.cache.sub # NULL
    BY ReadSubTest
  <1>3. AfterLog(w, action) = w \/ AfterLog(w, action) = r
    BY <1>1 DEF AfterLog
  <1>4. ASSUME NEW e \in logEvent(w, t, id, action) PROVE EventInv(e, x)
    <2>1. e = event /\ (action = "checkin" \/ InSession(w.cache))
      BY <1>1 DEF logEvent
    <2>2. e.action = action /\ e.sid = id /\ e.sub = r.cache.sub
      BY <2>1
    <2> HIDE DEF event, r
    <2>3. CASE action = "checkin"
      BY <2>2, <2>3 DEF EventInv
    <2>4. CASE InSession(w.cache)
      <3>1. /\ w.cache.sid \in 1..u /\ w.cache.end <= x[w.cache.sid] + TTL
            /\ w.cache.end > now /\ w.cache.end \in Nat
        BY <2>4 DEF WorldInv, Current, InSession, Future, Settled, CacheType
      <3>2. w.cache.sid \in Session
        BY <3>1, Constants DEF Session
      <3>3. x[w.cache.sid] \in Nat
        BY <3>2 DEF Times
      <3>4. now < x[w.cache.sid] + TTL
        BY <3>1, <3>3, Constants
      <3> QED
        BY <1>2, <2>2, <2>4, <3>2, <3>4 DEF EventInv
    <2> QED
      BY <2>1, <2>3, <2>4
  <1> HIDE DEF r
  <1> QED
    BY <1>2, <1>3, <1>4

LEMMA PageLater ==
    ASSUME NEW x, NEW y, NEW u \in 0..MaxSessions, NEW v \in 0..MaxSessions,
           Times(x), Times(y), \A s \in Session : x[s] <= y[s], u <= v,
           NEW p, PageInv(p, x, u)
    PROVE  PageInv(p, y, v)
  <1>1. CASE p.made
    <2>1. CacheType(p.cache, u) /\ Settled(p.cache) /\ Current(p.cache, x, u)
      BY <1>1 DEF PageInv
    <2>2. CacheType(p.cache, v) /\ Current(p.cache, y, v)
      BY <2>1, CurrentLater
    <2> QED
      BY <1>1, <2>2 DEF PageInv
  <1>2. CASE ~p.made
    <2>1. CacheType(p.cache, v)
      <3>1. 1..u \subseteq 1..v
        BY Constants
      <3> QED
        BY <3>1 DEF PageInv, CacheType
    <2> QED
      BY <1>2, <2>1 DEF PageInv
  <1> QED
    BY <1>1, <1>2

(* One tab takes a step: its page, the storage and the events are in order *)
(* for the new values, and the pages of the other tabs stay so.            *)
LEMMA TabStepHolds ==
    ASSUME IInv, NEW t \in Tab, NEW p, NEW x, NEW u \in 0..MaxSessions,
           tab' = [tab EXCEPT ![t] = p], extended' = x, used' = u,
           now' = now, backend' = backend,
           Times(x), \A s \in Session : extended[s] <= x[s], used <= u,
           PageInv(p, x, u), StoreInv(store', x, u), \A e \in out' : EventInv(e, x)
    PROVE  IInv'
  <1>1. CountersType'
    BY DEF IInv, CountersType, Times
  <1>2. tab' \in [Tab -> Page]
    BY DEF IInv, PageInv
  <1>3. \A q \in Tab : PageInv(tab'[q], x, u)
    <2> SUFFICES ASSUME NEW q \in Tab PROVE PageInv(tab'[q], x, u)
      OBVIOUS
    <2>1. CASE q = t
      BY <2>1 DEF IInv
    <2>2. CASE q # t
      <3>1. tab'[q] = tab[q] /\ PageInv(tab[q], extended, used)
        BY <2>2 DEF IInv
      <3>2. Times(extended) /\ used \in 0..MaxSessions
        BY DEF IInv, CountersType, Times
      <3>3. PageInv(tab[q], x, u)
        BY <3>1, <3>2, PageLater
      <3> QED
        BY <3>1, <3>3
    <2> QED
      BY <2>1, <2>2
  <1>4. \A q \in Tab : PageInv(tab[q], extended, used)'
    BY <1>3 DEF PageInv, Current, Settled, Agrees, InSession, Future
  <1>5. StoreInv(store, extended, used)'
    BY DEF StoreInv
  <1>6. \A e \in out' : EventInv(e, extended)'
    BY DEF EventInv
  <1> QED
    BY <1>1, <1>2, <1>4, <1>5, <1>6 DEF IInv

(* The invariant in the terms of the lemmas.                               *)
LEMMA InvFacts ==
    ASSUME IInv
    PROVE  /\ now \in Nat /\ used \in 0..MaxSessions /\ used \in Nat /\ backend \in Test
           /\ Times(extended) /\ extended \in [Session -> Nat]
           /\ StoreInv(store, extended, used)
           /\ \A t \in Tab : /\ tab[t] \in Page /\ PageInv(tab[t], extended, used)
                             /\ World(t) \in Worlds
                             /\ World(t).cache = tab[t].cache /\ World(t).store = store
           /\ \A s : Extended(s) = Stamped(extended, s)
  <1>1. \A t \in Tab : World(t) \in Worlds
    BY DEF IInv, World, Worlds, Page, StoreInv, StoreType
  <1>2. \A s : Extended(s) = Stamped(extended, s)
    BY DEF Extended, Stamped
  <1>3. \A t \in Tab : World(t).cache = tab[t].cache /\ World(t).store = store
    BY DEF World
  <1> QED
    BY <1>1, <1>2, <1>3, Constants DEF IInv, CountersType, Times

(* A page whose session is constructed.                                    *)
LEMMA MadeFacts ==
    ASSUME IInv, NEW t \in Tab, tab[t].made
    PROVE  /\ WorldInv(World(t), extended, used)
           /\ Look(World(t)) = World(t)
           /\ isActive(World(t)) <=> InSession(tab[t].cache)
           /\ Agrees(tab[t].cache, tab[t].logger)
  <1>1. WorldInv(World(t), extended, used) /\ Agrees(tab[t].cache, tab[t].logger)
    BY InvFacts DEF PageInv, WorldInv
  <1>2. Settled(World(t).cache) /\ World(t).cache = tab[t].cache
    BY <1>1, InvFacts DEF WorldInv
  <1> QED
    BY <1>1, <1>2, SettledLook

LEMMA LoggerMade ==
    ASSUME IInv, NEW t \in Tab, NEW s \in Source, tab[t].logger[s] # NULL
    PROVE  tab[t].made
  BY InvFacts DEF PageInv

(* A page that is there keeps all but its cache.                           *)
LEMMA CacheStep ==
    ASSUME IInv, NEW t \in Tab, tab[t].made, NEW x, NEW w, WorldInv(w, x, used),
           InSession(w.cache) => InSession(tab[t].cache) /\ w.cache.sid = tab[t].cache.sid
    PROVE  PageInv([tab[t] EXCEPT !.cache = w.cache], x, used)
  <1> DEFINE p == [tab[t] EXCEPT !.cache = w.cache]
  <1>1. /\ tab[t] \in Page /\ CacheType(w.cache, used) /\ Settled(w.cache)
        /\ Current(w.cache, x, used) /\ w.cache \in [Key -> Value]
    BY InvFacts DEF WorldInv, Worlds
  <1>2. /\ p \in Page /\ p.cache = w.cache
        /\ p.made = tab[t].made /\ p.logger = tab[t].logger /\ p.request = tab[t].request
    BY <1>1 DEF Page
  <1> HIDE DEF p
  <1>3. Agrees(w.cache, tab[t].logger)
    BY MadeFacts DEF Agrees
  <1>4. PageInv(p, x, used)
    BY <1>1, <1>2, <1>3 DEF PageInv
  <1> QED
    BY <1>4 DEF p

LEMMA ExtendedStepHolds ==
    ASSUME IInv, NEW t \in Tab, NEW p, NEW x,
           tab' = [tab EXCEPT ![t] = p], extended' = x, UNCHANGED <<now, backend, used>>,
           Times(x), \A s \in Session : extended[s] <= x[s],
           PageInv(p, x, used), StoreInv(store', x, used), \A e \in out' : EventInv(e, x)
    PROVE  IInv'
  <1> DEFINE u == used
  <1>1. u \in 0..MaxSessions /\ used <= u /\ used' = u
    BY InvFacts
  <1>2. PageInv(p, x, u) /\ StoreInv(store', x, u)
    OBVIOUS
  <1> HIDE DEF u
  <1> QED
    BY <1>1, <1>2, TabStepHolds

LEMMA PageStepHolds ==
    ASSUME IInv, NEW t \in Tab, NEW p,
           tab' = [tab EXCEPT ![t] = p], UNCHANGED <<now, store, backend, used, extended>>,
           PageInv(p, extended, used), \A e \in out' : EventInv(e, extended)
    PROVE  IInv'
  <1> DEFINE x == extended
  <1>1. Times(x) /\ extended' = x /\ StoreInv(store', x, used)
    BY InvFacts
  <1>2. \A s \in Session : extended[s] <= x[s]
    BY InvFacts
  <1>3. PageInv(p, x, used) /\ \A e \in out' : EventInv(e, x)
    OBVIOUS
  <1> HIDE DEF x
  <1> QED
    BY <1>1, <1>2, <1>3, ExtendedStepHolds

LEMMA LoadStep ==
    ASSUME IInv, NEW t \in Tab, NEW kind \in Kinds, Load(t, kind)
    PROVE  IInv'
  <1> DEFINE p == [Blank EXCEPT !.kind = kind, !.test = IF isSearchResultPage(kind) THEN backend ELSE NULL]
  <1>1. p \in Page /\ ~p.made /\ p.cache = [k \in Key |-> MISSING]
        /\ p.logger = [s \in Source |-> NULL] /\ p.request = NULL
    <2>1. (IF isSearchResultPage(kind) THEN backend ELSE NULL) \in Test \cup {NULL}
      BY InvFacts
    <2> QED
      BY <2>1, Constants, SessionAssumption DEF Blank, Page
  <1>2. p.cache.end = MISSING /\ p.cache.sid = MISSING /\ p.cache.sub = MISSING
    BY <1>1 DEF Key
  <1>3. /\ tab' = [tab EXCEPT ![t] = p] /\ out' = {}
        /\ UNCHANGED <<now, store, backend, used, extended>>
    BY DEF Load
  <1> HIDE DEF p
  <1>4. PageInv(p, extended, used)
    BY <1>1, <1>2 DEF PageInv, CacheType, Page
  <1> QED
    BY <1>3, <1>4, PageStepHolds

LEMMA UnloadStep ==
    ASSUME IInv, NEW t \in Tab, Unload(t)
    PROVE  IInv'
  <1> DEFINE p == Blank
  <1>1. p \in Page /\ ~p.made /\ p.cache = [k \in Key |-> MISSING]
        /\ p.logger = [s \in Source |-> NULL] /\ p.request = NULL
    BY Constants DEF Blank, Page
  <1>2. p.cache.end = MISSING /\ p.cache.sid = MISSING /\ p.cache.sub = MISSING
    BY <1>1 DEF Key
  <1>3. /\ tab' = [tab EXCEPT ![t] = p] /\ out' = {}
        /\ UNCHANGED <<now, store, backend, used, extended>>
    BY DEF Unload
  <1> HIDE DEF p
  <1>4. PageInv(p, extended, used)
    BY <1>1, <1>2 DEF PageInv, CacheType, Page
  <1> QED
    BY <1>3, <1>4, PageStepHolds

LEMMA EventStep ==
    ASSUME IInv, NEW t \in Tab, NEW source \in Source, NEW action, Event(t, source, action)
    PROVE  IInv'
  <1> DEFINE w == World(t)
             id == tab[t].logger[source]
             p == [tab[t] EXCEPT !.cache = AfterLog(w, action).cache]
  <1>1. /\ tab' = [tab EXCEPT ![t] = p]
        /\ out' = logEvent(w, t, id, action)
        /\ UNCHANGED <<now, store, backend, used, extended>>
    BY DEF Event
  <1>2. tab[t].made /\ id # NULL
    BY LoggerMade DEF Event
  <1>3. WorldInv(w, extended, used) /\ Agrees(w.cache, tab[t].logger) /\ w.cache = tab[t].cache
    BY <1>2, MadeFacts, InvFacts
  <1>4. InSession(w.cache) => id = w.cache.sid
    BY <1>2, <1>3 DEF Agrees
  <1> HIDE DEF w, id
  <1>5. /\ WorldInv(AfterLog(w, action), extended, used)
        /\ AfterLog(w, action).store = w.store
        /\ AfterLog(w, action).cache.end = w.cache.end
        /\ AfterLog(w, action).cache.sid = w.cache.sid
        /\ \A e \in logEvent(w, t, id, action) : EventInv(e, extended)
    BY <1>3, <1>4, InvFacts, LogFacts
  <1>6. PageInv(p, extended, used)
    BY <1>2, <1>3, <1>5, CacheStep DEF InSession
  <1> HIDE DEF p
  <1> QED
    BY <1>1, <1>5, <1>6, PageStepHolds

LEMMA AppendStep ==
    ASSUME IInv, NEW t \in Tab, AppendUrlParams(t)
    PROVE  IInv'
  <1> DEFINE w == World(t)
             r == Read(w, "sub")
             p == [tab[t] EXCEPT !.cache = r.cache]
  <1>1. /\ tab' = [tab EXCEPT ![t] = p] /\ out' = {}
        /\ UNCHANGED <<now, store, backend, used, extended>>
    BY DEF AppendUrlParams
  <1>2. tab[t].made
    BY LoggerMade DEF AppendUrlParams, Source
  <1>3. WorldInv(w, extended, used) /\ w.cache = tab[t].cache
    BY <1>2, MadeFacts, InvFacts
  <1> HIDE DEF w
  <1>4. /\ WorldInv(r, extended, used)
        /\ r.cache.end = w.cache.end /\ r.cache.sid = w.cache.sid
    BY <1>3, ReadSubTest
  <1> HIDE DEF r
  <1>5. PageInv(p, extended, used)
    BY <1>2, <1>3, <1>4, CacheStep DEF InSession
  <1> HIDE DEF p
  <1> QED
    BY <1>1, <1>5, PageStepHolds

LEMMA SearchStep ==
    ASSUME IInv, NEW t \in Tab, NEW fail \in Failures, Search(t, fail)
    PROVE  IInv'
  <1> DEFINE w == World(t)
             v == refresh(w, fail)
             id == tab[t].logger["autocomplete"]
             l == AfterLog(v, "searchResultPage")
             p == [tab[t] EXCEPT !.cache = l.cache]
             x == IF isActive(w) /\ "end" \notin fail THEN Extended(store.sid) ELSE extended
  <1>1. /\ tab' = [tab EXCEPT ![t] = p]
        /\ store' = v.store /\ extended' = x
        /\ out' = logEvent(v, t, id, "searchResultPage")
        /\ UNCHANGED <<now, backend, used>>
    BY DEF Search
  <1>2. tab[t].made /\ id # NULL
    BY LoggerMade DEF Search, Source
  <1>3. /\ WorldInv(w, extended, used) /\ Agrees(w.cache, tab[t].logger)
        /\ w.cache = tab[t].cache /\ w.store = store
        /\ isActive(w) <=> InSession(w.cache)
    BY <1>2, MadeFacts, InvFacts
  <1>4. Times(x) /\ \A s \in Session : extended[s] <= x[s]
    <2>1. CASE isActive(w) /\ "end" \notin fail
      <3>1. x = Stamped(extended, store.sid)
        BY <2>1, InvFacts
      <3> QED
        BY <3>1, InvFacts, StampedFacts
    <2>2. CASE ~(isActive(w) /\ "end" \notin fail)
      <3>1. x = extended
        BY <2>2
      <3> HIDE DEF x
      <3> QED
        BY <3>1, InvFacts DEF Times
    <2> QED
      BY <2>1, <2>2
  <1>5. CASE isActive(w)
    <2>1. x = IF "end" \in fail THEN extended ELSE Stamped(extended, w.store.sid)
      BY <1>3, <1>5, InvFacts
    <2> HIDE DEF w, x
    <2>2. WorldInv(v, x, used) /\ v.cache = w.cache
      BY <1>3, <1>5, <2>1, InvFacts, RefreshInSession
    <2>3. InSession(v.cache) => id = v.cache.sid
      BY <1>2, <1>3, <2>2 DEF Agrees, Source
    <2> HIDE DEF v, id
    <2>4. /\ WorldInv(AfterLog(v, "searchResultPage"), x, used)
          /\ AfterLog(v, "searchResultPage").store = v.store
          /\ AfterLog(v, "searchResultPage").cache.end = v.cache.end
          /\ AfterLog(v, "searchResultPage").cache.sid = v.cache.sid
          /\ \A e \in logEvent(v, t, id, "searchResultPage") : EventInv(e, x)
      BY <1>4, <2>2, <2>3, InvFacts, LogFacts
    <2>5. PageInv(p, x, used)
      <3>1. InSession(l.cache) => InSession(tab[t].cache) /\ l.cache.sid = tab[t].cache.sid
        BY <1>3, <2>2, <2>4 DEF InSession
      <3>2. WorldInv(l, x, used)
        BY <2>4
      <3> HIDE DEF l
      <3> QED
        BY <1>2, <3>1, <3>2, CacheStep
    <2>6. StoreInv(v.store, x, used)
      BY <2>2 DEF WorldInv
    <2> HIDE DEF p
    <2> QED
      BY <1>1, <1>4, <2>4, <2>5, <2>6, ExtendedStepHolds
  <1>6. CASE ~isActive(w)
    <2>1. v = Invalidated /\ x = extended
      BY <1>6 DEF refresh
    <2>2. l = Look(Invalidated) /\ out' = {}
      BY <1>1, <2>1, LookInvalidated DEF AfterLog, logEvent
    <2>3. WorldInv(l, extended, used) /\ ~InSession(l.cache)
      BY <2>2, LookInvalidated
    <2> HIDE DEF v, x, l
    <2>4. PageInv(p, extended, used)
      BY <1>2, <2>3, CacheStep
    <2>5. StoreInv(v.store, extended, used)
      BY <2>1, InvalidatedFacts
    <2> HIDE DEF p
    <2> QED
      BY <1>1, <1>4, <2>1, <2>2, <2>4, <2>5, ExtendedStepHolds
  <1> QED
    BY <1>5, <1>6

LEMMA RequestFailsStep ==
    ASSUME IInv, NEW t \in Tab, RequestFails(t)
    PROVE  IInv'
  <1> DEFINE p == [tab[t] EXCEPT !.request = NULL]
  <1>1. /\ tab' = [tab EXCEPT ![t] = p] /\ out' = {}
        /\ UNCHANGED <<now, store, backend, used, extended>>
    BY DEF RequestFails
  <1>2. /\ p \in Page /\ p.made = tab[t].made /\ p.cache = tab[t].cache
        /\ p.logger = tab[t].logger /\ p.request = NULL
    BY InvFacts DEF Page
  <1> HIDE DEF p
  <1>3. PageInv(p, extended, used)
    BY <1>2, InvFacts DEF PageInv
  <1> QED
    BY <1>1, <1>3, PageStepHolds

(* The answer changes subTest only, where it can be stored.                *)
LEMMA ReplyStep ==
    ASSUME IInv, NEW t \in Tab, NEW fail \in Failures, Reply(t, fail)
    PROVE  IInv'
  <1> DEFINE o == World(t)
             answer == tab[t].request
             w == Set(o, "sub", answer, fail)
             q == [tab[t] EXCEPT !.cache = w.cache]
             p == [tab[t] EXCEPT !.cache = w.cache, !.request = NULL]
  <1>1. /\ tab' = [tab EXCEPT ![t].cache = w.cache, ![t].request = NULL]
        /\ store' = w.store /\ out' = {} /\ answer # NULL
        /\ UNCHANGED <<now, backend, used, extended>>
    BY DEF Reply
  <1>2. tab[t].made /\ tab[t] \in Page /\ answer \in Test
    BY <1>1, InvFacts DEF PageInv, Page
  <1>3. /\ WorldInv(o, extended, used) /\ o \in Worlds
        /\ o.cache = tab[t].cache /\ o.store = store
    BY <1>2, MadeFacts, InvFacts
  <1>4. "end" \in Key /\ "sid" \in Key /\ "sub" \in Key /\ "end" # "sub" /\ "sid" # "sub"
    BY DEF Key
  <1>5. answer \in SubTest /\ answer \in Value
    BY <1>2, Constants DEF SubTest
  <1> HIDE DEF o, answer
  <1>6. /\ w \in Worlds
        /\ "sub" \in fail => w = o
        /\ "sub" \notin fail => w.cache["sub"] = answer /\ w.store["sub"] = answer
        /\ \A k \in Key : k # "sub" => w.cache[k] = o.cache[k] /\ w.store[k] = o.store[k]
    BY <1>3, <1>4, <1>5, SetFacts
  <1> HIDE DEF w
  <1>7. /\ w.cache.end = o.cache.end /\ w.cache.sid = o.cache.sid
        /\ w.store.end = o.store.end /\ w.store.sid = o.store.sid
    BY <1>4, <1>6
  <1>9. WorldInv(w, extended, used)
    <2>1. CASE "sub" \in fail
      BY <1>3, <1>6, <2>1
    <2>2. CASE "sub" \notin fail
      <3>1. w.cache.sub = answer /\ w.store.sub = answer
        BY <1>6, <2>2
      <3>2. CacheType(w.cache, used) /\ StoreInv(w.store, extended, used) /\ Settled(w.cache)
        BY <1>3, <1>5, <1>6, <1>7, <3>1
           DEF WorldInv, CacheType, StoreInv, StoreType, Settled, Worlds
      <3>3. Current(w.cache, extended, used)
        BY <1>1, <1>3, <1>5, <1>7, <3>1, Constants DEF WorldInv, Current, InSession
      <3> QED
        BY <1>6, <3>2, <3>3 DEF WorldInv
    <2> QED
      BY <2>1, <2>2
  <1>10. PageInv(q, extended, used)
    BY <1>2, <1>3, <1>7, <1>9, CacheStep DEF InSession
  <1>11. tab' = [tab EXCEPT ![t] = p]
    BY <1>1, <1>2 DEF IInv, Page
  <1>12. /\ p \in Page /\ p.made = q.made /\ p.cache = q.cache /\ p.logger = q.logger
         /\ p.request = NULL
    <2>1. w.cache \in [Key -> Value]
      BY <1>6 DEF Worlds
    <2> QED
      BY <1>2, <2>1 DEF Page
  <1> HIDE DEF p, q
  <1>13. PageInv(p, extended, used)
    BY <1>10, <1>12 DEF PageInv
  <1>14. StoreInv(store', extended, used)
    BY <1>1, <1>9 DEF WorldInv
  <1> DEFINE x == extended
  <1>15. Times(x) /\ extended' = x /\ PageInv(p, x, used) /\ StoreInv(store', x, used)
    BY <1>1, <1>13, <1>14, InvFacts
  <1>16. \A s \in Session : extended[s] <= x[s]
    BY InvFacts
  <1> HIDE DEF x
  <1> QED
    BY <1>1, <1>11, <1>15, <1>16, ExtendedStepHolds

(* The session that setup() finds or constructs.                           *)
LEMMA SetupSession ==
    ASSUME IInv, NEW t \in Tab, NEW fail \in Failures,
           ~tab[t].made /\ ~isActive(World(t)) => used < MaxSessions
    PROVE  LET p == tab[t]
               o == World(t)
               w == IF p.made THEN o ELSE initialize(o, used + 1, p.test, fail)
               begun == ~p.made /\ Begun(o, fail)
               x == IF begun THEN Stamped(extended, used + 1) ELSE extended
               u == IF begun THEN used + 1 ELSE used
           IN  /\ WorldInv(Look(w), x, u)
               /\ isActive(w) <=> InSession(Look(w).cache)
               /\ InSession(Look(w).cache) /\ ~begun => Look(w).store.sid = store.sid
               /\ begun => Look(w).store.sid = used + 1
               /\ Agrees(Look(w).cache, p.logger)
  <1>1. CASE tab[t].made
    <2>1. /\ WorldInv(World(t), extended, used)
          /\ Look(World(t)) = World(t)
          /\ isActive(World(t)) <=> InSession(tab[t].cache)
          /\ Agrees(tab[t].cache, tab[t].logger)
      BY <1>1, MadeFacts
    <2>2. World(t).cache = tab[t].cache /\ World(t).store = store
      BY InvFacts
    <2> QED
      BY <1>1, <2>1, <2>2
  <1>2. CASE ~tab[t].made
    <2> DEFINE o == World(t)
               w == initialize(o, used + 1, tab[t].test, fail)
    <2>1. /\ tab[t].cache = [k \in Key |-> MISSING] /\ tab[t].logger = [s \in Source |-> NULL]
          /\ tab[t].test \in Test \cup {NULL}
      BY <1>2, InvFacts DEF PageInv, Page
    <2>2. o \in Worlds /\ o.cache = tab[t].cache /\ o.store = store
      BY InvFacts
    <2>3. Unread(o)
      BY <2>1, <2>2 DEF Unread, Key
    <2>4. CountersType /\ StoreInv(o.store, extended, used)
      BY <2>2 DEF IInv
    <2>5. ~isActive(o) => used < MaxSessions
      BY <1>2
    <2> HIDE DEF o
    <2>6. /\ WorldInv(Look(w), ExtendedThen(o, fail), UsedThen(o, fail))
          /\ isActive(w) <=> InSession(Look(w).cache)
          /\ InSession(Look(w).cache) /\ ~Begun(o, fail) => Look(w).store.sid = o.store.sid
          /\ Begun(o, fail) => Look(w).store.sid = used + 1
      BY <2>1, <2>2, <2>3, <2>4, <2>5, InitializeFacts
    <2>7. Agrees(Look(w).cache, tab[t].logger)
      BY <2>1 DEF Agrees
    <2> HIDE DEF w
    <2> QED
      BY <1>2, <2>2, <2>6, <2>7 DEF o, w, ExtendedThen, UsedThen
  <1> QED
    BY <1>1, <1>2

LEMMA StampedTwice ==
    ASSUME NEW x, Times(x), NEW s
    PROVE  Stamped(Stamped(x, s), s) = Stamped(x, s)
  BY DEF Stamped, Times

(* setup() extends the session in the storage for a new search: the one it *)
(* has just begun, or the one it has found there.                          *)
LEMMA SetupExtends ==
    ASSUME IInv, NEW t \in Tab, NEW fail \in Failures,
           ~tab[t].made /\ ~isActive(World(t)) => used < MaxSessions,
           NEW searches \in BOOLEAN, NEW w,
           w = IF tab[t].made THEN World(t) ELSE initialize(World(t), used + 1, tab[t].test, fail),
           searches => isActive(w)
    PROVE  LET begun == ~tab[t].made /\ Begun(World(t), fail)
               v == IF searches THEN refresh(Look(w), fail) ELSE Look(w)
               u == IF begun THEN used + 1 ELSE used
               y == IF begun THEN Extended(used + 1)
                    ELSE IF searches /\ "end" \notin fail THEN Extended(store.sid)
                    ELSE extended
           IN  /\ WorldInv(v, y, u)
               /\ v.cache = Look(w).cache
               /\ isActive(w) <=> InSession(v.cache)
               /\ Agrees(v.cache, tab[t].logger)
               /\ Times(y) /\ \A s \in Session : extended[s] <= y[s]
               /\ u \in 0..MaxSessions /\ used <= u
  <1> DEFINE begun == ~tab[t].made /\ Begun(World(t), fail)
             r == Look(w)
             x == IF begun THEN Stamped(extended, used + 1) ELSE extended
             v == IF searches THEN refresh(r, fail) ELSE r
             u == IF begun THEN used + 1 ELSE used
             y == IF begun THEN Extended(used + 1)
                  ELSE IF searches /\ "end" \notin fail THEN Extended(store.sid)
                  ELSE extended
  <1>1. /\ WorldInv(r, x, u)
        /\ isActive(w) <=> InSession(r.cache)
        /\ InSession(r.cache) /\ ~begun => r.store.sid = store.sid
        /\ begun => r.store.sid = used + 1
        /\ Agrees(r.cache, tab[t].logger)
    BY SetupSession
  <1>2. u \in 0..MaxSessions /\ used <= u
    <2>1. begun => used < MaxSessions
      BY DEF Begun
    <2> HIDE DEF begun
    <2> QED
      BY <2>1, InvFacts, Constants
  <1>3. begun => "end" \notin fail
    BY DEF Begun
  <1>4. /\ now \in Nat /\ Times(extended)
        /\ \A s : Extended(s) = Stamped(extended, s)
        /\ \A s \in Session : extended[s] <= extended[s]
    BY InvFacts DEF Times
  <1>5. \A s : Times(Stamped(extended, s)) /\ \A q \in Session : extended[q] <= Stamped(extended, s)[q]
    BY <1>4, StampedFacts
  <1> HIDE DEF begun, r, u
  <1>6. Times(x) /\ Times(y) /\ \A s \in Session : extended[s] <= y[s]
    BY <1>4, <1>5
  <1>7. CASE searches
    <2>1. InSession(r.cache)
      BY <1>1, <1>7
    <2> DEFINE z == IF "end" \in fail THEN x ELSE Stamped(x, r.store.sid)
    <2>2. z = y
      <3>1. CASE begun
        BY <1>1, <1>3, <1>4, <3>1, StampedTwice
      <3>2. CASE ~begun
        BY <1>1, <1>4, <1>7, <2>1, <3>2
      <3> QED
        BY <3>1, <3>2
    <2> HIDE DEF x, y
    <2>3. WorldInv(refresh(r, fail), z, u) /\ refresh(r, fail).cache = r.cache
      BY <1>1, <1>2, <1>4, <1>6, <2>1, RefreshInSession
    <2> HIDE DEF z
    <2>4. WorldInv(v, y, u) /\ v.cache = r.cache
      BY <1>7, <2>2, <2>3
    <2> HIDE DEF v
    <2> QED
      BY <1>1, <1>2, <1>6, <2>4 DEF v, y, u, r, begun
  <1>8. CASE ~searches
    <2>1. v = r /\ y = x
      BY <1>4, <1>8
    <2> HIDE DEF x, y, v
    <2> QED
      BY <1>1, <1>2, <1>6, <2>1 DEF v, y, u, r, begun
  <1> QED
    BY <1>7, <1>8

(* The page after setup( source ): in session it captures the id.          *)
LEMMA SetupPage ==
    ASSUME IInv, NEW t \in Tab, NEW source \in Source, NEW x, NEW u \in 0..MaxSessions,
           used <= u,
           NEW c, c \in [Key -> Value], CacheType(c, u), Settled(c), Current(c, x, u),
           NEW active \in BOOLEAN, active <=> InSession(c), Agrees(c, tab[t].logger),
           NEW id, active => id = c.sid, NEW asks \in BOOLEAN
    PROVE  PageInv([tab[t] EXCEPT !.made = TRUE,
                                  !.setups = @ \cup {source},
                                  !.cache = c,
                                  !.logger = IF active THEN [@ EXCEPT ![source] = id] ELSE @,
                                  !.request = IF asks THEN backend ELSE @], x, u)
  <1> DEFINE old == tab[t].logger
             logger == IF active THEN [old EXCEPT ![source] = id] ELSE old
             request == IF asks THEN backend ELSE tab[t].request
             setups == tab[t].setups \cup {source}
             p == [tab[t] EXCEPT !.made = TRUE,
                                 !.setups = @ \cup {source},
                                 !.cache = c,
                                 !.logger = IF active THEN [@ EXCEPT ![source] = id] ELSE @,
                                 !.request = IF asks THEN backend ELSE @]
  <1>1. tab[t] \in Page
    BY InvFacts
  <1>2. old \in [Source -> Session \cup {NULL}] /\ request \in Test \cup {NULL}
        /\ setups \in SUBSET Source
    BY <1>1, InvFacts DEF Page
  <1>3. active => id \in Session
    BY Constants DEF Current, Session
  <1>4. logger \in [Source -> Session \cup {NULL}]
    BY <1>2, <1>3
  <1>5. p = [tab[t] EXCEPT !.made = TRUE, !.setups = setups, !.cache = c, !.logger = logger,
                           !.request = request]
    BY <1>1 DEF Page
  <1>6. Agrees(c, logger)
    BY <1>2 DEF Agrees
  <1> HIDE DEF p, logger, request, setups
  <1>7. p \in Page /\ p.made /\ p.cache = c /\ p.logger = logger
    BY <1>1, <1>2, <1>4, <1>5 DEF Page
  <1>8. PageInv(p, x, u)
    BY <1>6, <1>7 DEF PageInv
  <1> QED
    BY <1>8 DEF p

LEMMA SetupStep ==
    ASSUME IInv, NEW t \in Tab, NEW source \in Source, NEW fail \in Failures,
           Setup(t, source, fail)
    PROVE  IInv'
  <1> DEFINE p == tab[t]
             o == World(t)
             begun == ~p.made /\ Begun(o, fail)
             w == IF p.made THEN o ELSE initialize(o, used + 1, p.test, fail)
             asks == ~p.made /\ Asks(o, p.test, fail)
             active == isActive(w)
             id == Read(Look(w), "sid").cache.sid
             first == source = "fulltext"
             searches == active /\ first /\ isSearchResultPage(p.kind)
             v == IF searches THEN refresh(Look(w), fail) ELSE Look(w)
             action == IF searches THEN "searchResultPage" ELSE "visitPage"
             logs == active /\ (first \/ isSuggested(p.kind))
             c == IF logs THEN AfterLog(v, action).cache ELSE v.cache
             u == IF begun THEN used + 1 ELSE used
             y == IF begun THEN Extended(used + 1)
                  ELSE IF searches /\ "end" \notin fail THEN Extended(store.sid)
                  ELSE extended
             q == [p EXCEPT !.made = TRUE,
                            !.setups = @ \cup {source},
                            !.cache = c,
                            !.logger = IF active THEN [@ EXCEPT ![source] = id] ELSE @,
                            !.request = IF asks THEN backend ELSE @]
  <1>1. /\ tab' = [tab EXCEPT ![t] = q] /\ store' = v.store /\ used' = u /\ extended' = y
        /\ out' = (IF logs THEN logEvent(v, t, id, action) ELSE {})
        /\ UNCHANGED <<now, backend>>
        /\ ~p.made /\ ~isActive(o) => used < MaxSessions
    BY DEF Setup, Begun, FirstAction
  <1>2. searches \in BOOLEAN /\ asks \in BOOLEAN /\ active \in BOOLEAN /\ (searches => active)
    BY DEF isActive, Asks
  <1>3. /\ WorldInv(v, y, u)
        /\ v.cache = Look(w).cache
        /\ active <=> InSession(v.cache)
        /\ Agrees(v.cache, p.logger)
        /\ Times(y) /\ \A s \in Session : extended[s] <= y[s]
        /\ u \in 0..MaxSessions /\ used <= u
    <2> DEFINE s0 == searches
    <2>1. s0 \in BOOLEAN /\ (s0 => isActive(w))
      BY <1>2
    <2> HIDE DEF searches
    <2> QED
      BY <1>1, <2>1, SetupExtends
  <1>4. active => id = v.cache.sid
    <2>1. active => v.cache.sid # MISSING
      BY <1>3 DEF WorldInv, Settled, InSession
    <2> QED
      BY <1>3, <2>1 DEF Read
  <1>5. now \in Nat
    BY InvFacts
  <1> HIDE DEF v, y, u, w, searches, asks, action, id, active
  <1>6. InSession(v.cache) => id = v.cache.sid
    BY <1>3, <1>4
  <1>7. /\ WorldInv(AfterLog(v, action), y, u)
        /\ AfterLog(v, action).store = v.store
        /\ AfterLog(v, action).cache.end = v.cache.end
        /\ AfterLog(v, action).cache.sid = v.cache.sid
        /\ \A e \in logEvent(v, t, id, action) : EventInv(e, y)
    BY <1>3, <1>5, <1>6, LogFacts
  <1>8. /\ c \in [Key -> Value] /\ CacheType(c, u) /\ Settled(c) /\ Current(c, y, u)
        /\ c.end = v.cache.end /\ c.sid = v.cache.sid
    BY <1>3, <1>7 DEF WorldInv, Worlds
  <1> HIDE DEF c, logs
  <1>9. (active <=> InSession(c)) /\ Agrees(c, p.logger) /\ (active => id = c.sid)
    BY <1>3, <1>4, <1>8 DEF InSession, Agrees
  <1>10. PageInv(q, y, u)
    BY <1>2, <1>3, <1>8, <1>9, SetupPage
  <1> HIDE DEF q
  <1>11. \A e \in out' : EventInv(e, y)
    BY <1>1, <1>7
  <1>12. StoreInv(store', y, u)
    BY <1>1, <1>3 DEF WorldInv
  <1> QED
    BY <1>1, <1>3, <1>10, <1>11, <1>12, TabStepHolds

(* Time can only take a page out of its session.                           *)
LEMMA AdvanceStep ==
    ASSUME IInv, Advance
    PROVE  IInv'
  <1>1. /\ now' = now + 1 /\ now \in Nat /\ out' = {}
        /\ UNCHANGED <<store, backend, tab, used, extended>>
    BY InvFacts DEF Advance
  <1>2. CountersType'
    BY <1>1 DEF IInv, CountersType
  <1>3. StoreInv(store, extended, used)'
    BY <1>1 DEF IInv, StoreInv
  <1>4. ASSUME NEW t \in Tab PROVE PageInv(tab[t], extended, used)'
    <2> DEFINE c == tab[t].cache
    <2>1. PageInv(tab[t], extended, used) /\ tab'[t] = tab[t]
      BY <1>1 DEF IInv
    <2>2. c.end \in Nat \cup {NULL, MISSING}
      BY <2>1 DEF PageInv, CacheType
    <2>3. c.end # MISSING /\ Future(c.end)' => Future(c.end)
      <3>1. CASE c.end \in Nat
        BY <1>1, <3>1 DEF Future
      <3>2. CASE c.end = NULL
        BY <1>1, <3>2 DEF Future
      <3> QED
        BY <2>2, <3>1, <3>2
    <2> QED
      BY <1>1, <2>1, <2>3 DEF PageInv, Settled, Current, Agrees, InSession
  <1>5. \A e \in out' : EventInv(e, extended)'
    BY <1>1
  <1> QED
    BY <1>1, <1>2, <1>3, <1>4, <1>5 DEF IInv

LEMMA DeployStep ==
    ASSUME IInv, NEW test \in Test, Deploy(test)
    PROVE  IInv'
  <1>1. /\ backend' \in Test /\ out' = {}
        /\ UNCHANGED <<now, store, tab, used, extended>>
    BY DEF Deploy
  <1>2. CountersType'
    BY <1>1 DEF IInv, CountersType
  <1>3. StoreInv(store, extended, used)'
    BY <1>1 DEF IInv, StoreInv
  <1>4. \A t \in Tab : PageInv(tab[t], extended, used)'
    BY <1>1 DEF IInv, PageInv, Settled, Current, Agrees, InSession, Future
  <1> QED
    BY <1>1, <1>2, <1>3, <1>4 DEF IInv

LEMMA SameStep ==
    ASSUME IInv, UNCHANGED vars
    PROVE  IInv'
  <1>1. UNCHANGED <<now, store, backend, tab, used, extended, out>>
    BY DEF vars
  <1>2. CountersType' /\ StoreInv(store, extended, used)'
    BY <1>1 DEF IInv, CountersType, StoreInv
  <1>3. \A t \in Tab : PageInv(tab[t], extended, used)'
    BY <1>1 DEF IInv, PageInv, Settled, Current, Agrees, InSession, Future
  <1>4. \A e \in out' : EventInv(e, extended)'
    BY <1>1 DEF IInv, EventInv
  <1> QED
    BY <1>1, <1>2, <1>3, <1>4 DEF IInv

LEMMA InitHolds ==
    ASSUME Init
    PROVE  IInv
  <1>1. CountersType
    BY Constants DEF Init, CountersType
  <1>2. StoreInv(store, extended, used)
    BY InvalidatedFacts DEF Init
  <1>3. Blank \in Page /\ ~Blank.made /\ Blank.cache = [k \in Key |-> MISSING]
        /\ Blank.logger = [s \in Source |-> NULL] /\ Blank.request = NULL
    BY Constants DEF Blank, Page
  <1>4. tab \in [Tab -> Page] /\ \A t \in Tab : tab[t] = Blank
    BY <1>3 DEF Init
  <1>5. Blank.cache.end = MISSING /\ Blank.cache.sid = MISSING /\ Blank.cache.sub = MISSING
    BY <1>3 DEF Key
  <1>6. PageInv(Blank, extended, used)
    <2> DEFINE p == Blank
    <2>1. p \in Page /\ ~p.made /\ p.cache \in [Key -> Value]
      BY <1>3 DEF Page
    <2> QED
      BY <1>3, <1>5, <2>1 DEF PageInv, CacheType
  <1>7. out = {}
    BY DEF Init
  <1> QED
    BY <1>1, <1>2, <1>4, <1>6, <1>7 DEF IInv

LEMMA NextHolds ==
    ASSUME IInv, [Next]_vars
    PROVE  IInv'
  <1>1. ASSUME NEW t \in Tab, TabStep(t) PROVE IInv'
    BY <1>1, LoadStep, UnloadStep, SetupStep, SearchStep, ReplyStep, EventStep, AppendStep,
       RequestFailsStep
       DEF TabStep
  <1> QED
    BY <1>1, DeployStep, AdvanceStep, SameStep DEF Next

(* The storage, the pages and the events of the last step are in order,    *)
(* whatever tabs do and whichever entries cannot be stored.                *)
THEOREM SessionInvariant == Spec => []IInv
  <1>1. Init => IInv
    BY InitHolds
  <1>2. IInv /\ [Next]_vars => IInv'
    BY NextHolds
  <1> QED
    BY <1>1, <1>2, PTL DEF Spec

(***************************************************************************)
(* What the invariant implies                                              *)
(***************************************************************************)
(* The ids that genLogEventFn captured (searchSatisfaction.js:301-307) are *)
(* the id of the session that isActive() answers for.                      *)
THEOREM LoggersInSession == Spec => []LoggersAgree
  <1>1. IInv => LoggersAgree
    BY MadeFacts DEF LoggersAgree, Live, Agrees
  <1> QED
    BY <1>1, SessionInvariant, PTL

(* logEvent() sends nothing but checkins for a session that has expired,   *)
(* although the page that sends it may never have seen the new end, nor    *)
(* the session that took its place (searchSatisfaction.js:244-266).        *)
THEOREM ExpiredSilent == Spec => []NoEventAfterExpiry
  <1>1. IInv => NoEventAfterExpiry
    BY DEF IInv, EventInv, NoEventAfterExpiry
  <1> QED
    BY <1>1, SessionInvariant, PTL

(* If no failure concerns subTest, no event of a session but a checkin     *)
(* lacks a subTest (initialize, searchSatisfaction.js:161-242).            *)
THEOREM NoMasquerade == ASSUME SubTestKept PROVE Spec => []NeverMasquerades
  <1>1. IInv => NeverMasquerades
    BY SubTestKept DEF IInv, EventInv, NeverMasquerades
  <1> QED
    BY <1>1, SessionInvariant, PTL

(***************************************************************************)
(* A session that is lost                                                  *)
(***************************************************************************)
(* No handler brings a page back into a session: those that write the end  *)
(* and the id to the storage do not write them to the cache.               *)
LEMMA StaysLost ==
    ASSUME IInv, NEW t \in Tab, tab[t].made, ~InSession(tab[t].cache),
           TabStep(t), tab'[t].made
    PROVE  ~InSession(tab'[t].cache)
  <1> DEFINE o == World(t)
  <1>1. /\ WorldInv(o, extended, used) /\ Look(o) = o /\ ~isActive(o)
        /\ o.cache = tab[t].cache /\ ~InSession(o.cache)
        /\ now \in Nat /\ Times(extended) /\ used \in 0..MaxSessions
    BY MadeFacts, InvFacts
  <1>2. tab[t] \in Page /\ tab \in [Tab -> Page]
    BY DEF IInv
  <1>3. ASSUME NEW kind, Load(t, kind) PROVE FALSE
    <2>1. tab'[t] = [Blank EXCEPT !.kind = kind, !.test = IF isSearchResultPage(kind) THEN backend ELSE NULL]
      BY <1>2, <1>3 DEF Load
    <2> QED
      BY <2>1 DEF Blank
  <1>4. CASE Unload(t)
    <2>1. tab'[t] = Blank
      BY <1>2, <1>4 DEF Unload
    <2> QED
      BY <2>1 DEF Blank
  <1>5. ASSUME NEW source, NEW fail, Setup(t, source, fail) PROVE ~InSession(tab'[t].cache)
    <2> DEFINE active == isActive(o)
               searches == active /\ source = "fulltext" /\ isSearchResultPage(tab[t].kind)
               v == IF searches THEN refresh(Look(o), fail) ELSE Look(o)
               action == IF searches THEN "searchResultPage" ELSE "visitPage"
               logs == active /\ (source = "fulltext" \/ isSuggested(tab[t].kind))
    <2>1. tab'[t].cache = IF logs THEN AfterLog(v, action).cache ELSE v.cache
      <3> DEFINE c == IF logs THEN AfterLog(v, action).cache ELSE v.cache
                 id == Read(Look(o), "sid").cache.sid
                 asks == ~tab[t].made /\ Asks(o, tab[t].test, fail)
                 setups == tab[t].setups \cup {source}
                 logger == IF active THEN [tab[t].logger EXCEPT ![source] = id] ELSE tab[t].logger
                 request == IF asks THEN backend ELSE tab[t].request
      <3>1. tab' = [tab EXCEPT ![t] =
                      [tab[t] EXCEPT !.made = TRUE,
                                     !.setups = @ \cup {source},
                                     !.cache = c,
                                     !.logger = IF active THEN [@ EXCEPT ![source] = id] ELSE @,
                                     !.request = IF asks THEN backend ELSE @]]
        BY <1>5 DEF Setup, FirstAction
      <3>2. tab'[t] = [tab[t] EXCEPT !.made = TRUE, !.setups = setups, !.cache = c,
                                     !.logger = logger, !.request = request]
        BY <1>2, <3>1 DEF Page
      <3> HIDE DEF c, setups, logger, request
      <3>3. tab'[t].cache = c
        BY <1>2, <3>2 DEF Page
      <3> QED
        BY <3>3 DEF c
    <2>2. ~logs /\ v = Look(o)
      BY <1>1
    <2> QED
      BY <1>1, <2>1, <2>2
  <1>6. ASSUME NEW fail, Search(t, fail) PROVE ~InSession(tab'[t].cache)
    <2>1. tab'[t].cache = AfterLog(refresh(o, fail), "searchResultPage").cache
      BY <1>2, <1>6 DEF Search, Page
    <2>2. refresh(o, fail) = Invalidated
      BY <1>1 DEF refresh
    <2>3. AfterLog(Invalidated, "searchResultPage") = Look(Invalidated)
      BY LookInvalidated DEF AfterLog
    <2> QED
      BY <2>1, <2>2, <2>3, LookInvalidated
  <1>7. ASSUME NEW source, NEW action, Event(t, source, action) PROVE ~InSession(tab'[t].cache)
    <2> DEFINE id == tab[t].logger[source]
    <2>1. tab'[t].cache = AfterLog(o, action).cache
      BY <1>2, <1>7 DEF Event, Page
    <2> HIDE DEF o, id
    <2>2. InSession(o.cache) => id = o.cache.sid
      BY <1>1
    <2>3. /\ WorldInv(AfterLog(o, action), extended, used)
          /\ AfterLog(o, action).store = o.store
          /\ AfterLog(o, action).cache.end = o.cache.end
          /\ AfterLog(o, action).cache.sid = o.cache.sid
          /\ \A e \in logEvent(o, t, id, action) : EventInv(e, extended)
      BY <1>1, <2>2, LogFacts
    <2> QED
      BY <1>1, <2>1, <2>3 DEF InSession
  <1>8. ASSUME NEW fail \in Failures, Reply(t, fail) PROVE ~InSession(tab'[t].cache)
    <2> DEFINE answer == tab[t].request
    <2>1. tab'[t].cache = Set(o, "sub", answer, fail).cache
      BY <1>2, <1>8 DEF Reply, Page
    <2>2. "end" \in Key /\ "sid" \in Key /\ "sub" \in Key /\ "end" # "sub" /\ "sid" # "sub"
      BY DEF Key
    <2>3. answer \in Value
      BY <1>2, Constants DEF Page, SubTest
    <2>4. o \in Worlds
      BY <1>1 DEF WorldInv
    <2> HIDE DEF o, answer
    <2>5. \A k \in Key : k # "sub" => /\ Set(o, "sub", answer, fail).cache[k] = o.cache[k]
                                      /\ Set(o, "sub", answer, fail).store[k] = o.store[k]
      BY <2>2, <2>3, <2>4, SetFacts
    <2> QED
      BY <1>1, <2>1, <2>2, <2>5 DEF InSession
  <1>9. CASE RequestFails(t)
    <2>1. tab'[t].cache = tab[t].cache
      BY <1>2, <1>9 DEF RequestFails, Page
    <2> QED
      BY <2>1
  <1>10. CASE AppendUrlParams(t)
    <2> DEFINE r == Read(o, "sub")
    <2>1. tab'[t].cache = r.cache
      BY <1>2, <1>10 DEF AppendUrlParams, Page
    <2>2. r.cache.end = o.cache.end /\ r.cache.sid = o.cache.sid
      BY <1>1, ReadSubTest
    <2> QED
      BY <1>1, <2>1, <2>2 DEF InSession
  <1> QED
    BY <1>3, <1>4, <1>5, <1>6, <1>7, <1>8, <1>9, <1>10 DEF TabStep

LEMMA StaysLostNext ==
    ASSUME IInv, [Next]_vars, NEW t \in Tab, tab[t].made, ~InSession(tab[t].cache), tab'[t].made
    PROVE  ~InSession(tab[t].cache)'
  <1>1. CASE TabStep(t)
    <2>1. now' = now
      BY <1>1 DEF TabStep, Load, Unload, Setup, Search, Event, AppendUrlParams, Reply, RequestFails
    <2> QED
      BY <1>1, <2>1, StaysLost DEF InSession, Future
  <1>2. ASSUME NEW q \in Tab, q # t, TabStep(q) PROVE tab'[t] = tab[t] /\ now' = now
    <2>1. tab \in [Tab -> Page]
      BY DEF IInv
    <2>2. CASE \E kind \in Kinds : Load(q, kind)
      BY <1>2, <2>1, <2>2 DEF Load
    <2>3. CASE Unload(q) \/ RequestFails(q) \/ AppendUrlParams(q)
      BY <1>2, <2>1, <2>3 DEF Unload, RequestFails, AppendUrlParams
    <2>4. CASE \E source \in Source, fail \in Failures : Setup(q, source, fail)
      BY <1>2, <2>1, <2>4 DEF Setup
    <2>5. CASE \E fail \in Failures : Search(q, fail) \/ Reply(q, fail)
      BY <1>2, <2>1, <2>5 DEF Search, Reply
    <2>6. CASE \E source \in Source, action \in {"click", "checkin"} : Event(q, source, action)
      BY <1>2, <2>1, <2>6 DEF Event
    <2> QED
      BY <1>2, <2>2, <2>3, <2>4, <2>5, <2>6 DEF TabStep
  <1>3. CASE UNCHANGED vars \/ \E test \in Test : Deploy(test)
    BY <1>3 DEF vars, Deploy, InSession, Future
  <1>4. CASE Advance
    <2>1. tab' = tab /\ now' = now + 1 /\ now \in Nat
      BY <1>4, InvFacts DEF Advance
    <2>2. tab[t].cache.end \in Nat \cup {NULL, MISSING} /\ tab[t].cache.end # MISSING
      BY InvFacts DEF PageInv, CacheType, Settled
    <2> QED
      BY <2>1, <2>2 DEF InSession, Future
  <1>5. ASSUME NEW q \in Tab, q # t, TabStep(q) PROVE ~InSession(tab[t].cache)'
    BY <1>2, <1>5 DEF InSession, Future
  <1> QED
    BY <1>1, <1>3, <1>4, <1>5 DEF Next

(* A page that has lost its session stays out of any, also after another   *)
(* tab has started a new one in the storage (isActive, get and refresh,    *)
(* searchSatisfaction.js:244-266).                                         *)
THEOREM NeverFindsAnother == Spec => LostForGood
  <1>1. ASSUME NEW t \in Tab
        PROVE  IInv /\ tab[t].made => (isActive(World(t)) <=> InSession(tab[t].cache))
    BY MadeFacts
  <1>2. IInv => \A t \in Tab : tab[t].made => (isActive(World(t)) <=> InSession(tab[t].cache))
    BY <1>1
  <1>3. (IInv => \A t \in Tab : tab[t].made => (isActive(World(t)) <=> InSession(tab[t].cache)))'
    BY <1>2, PTL
  <1>4. IInv /\ [Next]_vars =>
            [\A t \in Tab :
                (tab[t].made /\ ~isActive(World(t)) /\ tab'[t].made) => ~Live(t)']_vars
    <2> SUFFICES ASSUME IInv, [Next]_vars, NEW t \in Tab,
                        tab[t].made, ~isActive(World(t)), tab'[t].made
                 PROVE  ~Live(t)'
      OBVIOUS
    <2>1. IInv'
      BY NextHolds
    <2>2. ~InSession(tab[t].cache)'
      BY <1>2, StaysLostNext
    <2>3. isActive(World(t))' <=> InSession(tab[t].cache)'
      BY <1>3, <2>1
    <2> QED
      BY <2>2, <2>3 DEF Live
  <1> QED
    BY <1>4, SessionInvariant, PTL DEF Spec, LostForGood
=============================================================================
