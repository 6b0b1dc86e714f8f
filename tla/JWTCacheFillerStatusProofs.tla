--------------------- MODULE JWTCacheFillerStatusProofs ---------------------
(***************************************************************************)
(* The status the cache filler writes is never one computed for an older  *)
(* spec.  updateStatus works on the informer's copy of the object, which   *)
(* may lag the API server; UpdateStatus carries that copy's                *)
(* resourceVersion and the server refuses it once the object has moved.    *)
(* The proof rests on the fact that every copy the controller holds is the *)
(* server's object or an older one, and that an equal resourceVersion      *)
(* means the same object.                                                  *)
(***************************************************************************)
EXTENDS JWTCacheFillerProofs

\* The copy x of an object is the server's object o or was taken before o's
\* last write: every write to the API server moves the resourceVersion.
SameOrOlder(x, o) == x.rv <= o.rv /\ (x.rv = o.rv => x = o)

\* The informer's copies, and the copy the running sync read, are the
\* server's objects or older ones.
CopiesOlder ==
    /\ \A a \in Auths : SameOrOlder(seen[a], obj[a])
    /\ stage \in {"probe", "finish"} => SameOrOlder(cur.obj, obj[cur.a])

RVInv == TypeInv /\ CopiesOlder

\* One step of StatusForCurrentGeneration.
StatusStep ==
    \A a \in Auths :
        obj'[a].status # obj[a].status /\ obj'[a].status.phase # "Pending"
          => obj'[a].status.gen = obj'[a].gen

-----------------------------------------------------------------------------
(* Copies stay older when the server's object is written. *)

\* A copy that was the server's object or older stays older when the
\* object's resourceVersion moves on.
LEMMA OlderAfterWrite ==
    ASSUME NEW x, NEW o, NEW o2, x.rv \in Nat, o.rv \in Nat, o2.rv = o.rv + 1,
           SameOrOlder(x, o)
    PROVE  SameOrOlder(x, o2)
BY DEF SameOrOlder

\* Every write of the model to the API server moves the resourceVersion by one.
LEMMA WritesMoveRV ==
    ASSUME NEW o \in Object, NEW st, NEW s
    PROVE  /\ WithStatus(o, st).rv = o.rv + 1
           /\ WithSpec(o, s).rv = o.rv + 1
BY DEF WithStatus, WithSpec

\* A step that writes at most slot a of obj, moving its resourceVersion, and
\* leaves the copies alone keeps every copy older.
LEMMA WriteKeepsCopiesOlder ==
    ASSUME TypeInv, CopiesOlder, NEW a \in Auths,
           obj' = [obj EXCEPT ![a] = obj'[a]], obj'[a].rv = obj[a].rv + 1,
           seen' = seen, UNCHANGED <<stage, cur>>
    PROVE  CopiesOlder'
<1>1. \A x \in Auths : obj'[x] = obj[x] \/ (x = a /\ obj'[x].rv = obj[x].rv + 1)
  BY DEF TypeInv, TypeOK
<1>2. \A x \in Auths : seen[x].rv \in Nat /\ obj[x].rv \in Nat
  BY DEF TypeInv, TypeOK, Object
<1>3. stage \in {"probe", "finish"} => cur.a \in Auths /\ cur.obj.rv \in Nat
  BY DEF TypeInv, TypeOK, Cur, Object
<1>. QED
  BY <1>1, <1>2, <1>3, OlderAfterWrite DEF CopiesOlder

-----------------------------------------------------------------------------
(* The invariant holds initially and is preserved by every step. *)

LEMMA InitRVInv == Init => RVInv
BY InitTypeInv DEF Init, RVInv, CopiesOlder, SameOrOlder

LEMMA SyncCopiesOlder == CopiesOlder /\ Sync => CopiesOlder'
BY DEF CopiesOlder, Sync

\* A sync reads the informer's copy, which is the server's object or older.
LEMMA BeginCopiesOlder == RVInv /\ BeginSyncIndividual => CopiesOlder'
<1>. SUFFICES ASSUME TypeInv, CopiesOlder, BeginSyncIndividual PROVE CopiesOlder'
  BY DEF RVInv
<1>. PICK a \in pending : cur'.a = a /\ cur'.obj = seen[a]
  BY DEF BeginSyncIndividual
<1>1. obj' = obj /\ seen' = seen
  BY DEF BeginSyncIndividual
<1>2. a \in Auths
  BY DEF TypeInv, TypeOK
<1>. QED
  BY <1>1, <1>2 DEF CopiesOlder

\* The probes change only the conditions of the running sync, not its copy.
LEMMA ProbeCopiesOlder == CopiesOlder /\ DoExpensiveValidations => CopiesOlder'
<1>. SUFFICES ASSUME CopiesOlder, DoExpensiveValidations PROVE CopiesOlder'
  OBVIOUS
<1>1. cur'.obj = cur.obj /\ cur'.a = cur.a
  BY DEF DoExpensiveValidations
<1>. QED
  BY <1>1 DEF CopiesOlder, DoExpensiveValidations

\* What a finishing sync does to the server's objects: at most the status
\* write of its own authenticator, computed from the copy it read, and only
\* when that copy's resourceVersion is still the server's.
LEMMA FinishWrite ==
    ASSUME FinishSyncIndividual
    PROVE  \/ obj' = obj
           \/ /\ obj[cur.a].rv = cur.obj.rv
              /\ obj' = [obj EXCEPT ![cur.a] =
                           WithStatus(obj[cur.a], StatusFor(cur.conds, cur.obj.gen))]
BY DEF FinishSyncIndividual, UpdateSucceeds

\* A finishing sync ends with the worker idle or selecting, and the informer
\* copies untouched.
LEMMA FinishCopiesOlder == RVInv /\ FinishSyncIndividual => CopiesOlder'
<1>. SUFFICES ASSUME TypeInv, CopiesOlder, FinishSyncIndividual PROVE CopiesOlder'
  BY DEF RVInv
<1>1. stage' \in {"idle", "select"} /\ seen' = seen
  BY DEF FinishSyncIndividual
<1>2. CASE obj' = obj
  BY <1>1, <1>2 DEF CopiesOlder
<1>3. CASE obj' = [obj EXCEPT ![cur.a] =
                     WithStatus(obj[cur.a], StatusFor(cur.conds, cur.obj.gen))]
  <2>1. cur.a \in Auths /\ obj[cur.a] \in Object
    BY DEF TypeInv, TypeOK, Cur
  <2>2. obj'[cur.a].rv = obj[cur.a].rv + 1
    BY <1>3, <2>1, WritesMoveRV DEF TypeInv, TypeOK
  <2>3. \A x \in Auths : SameOrOlder(seen[x], obj'[x])
    <3>1. \A x \in Auths : seen[x].rv \in Nat /\ obj[x].rv \in Nat
      BY DEF TypeInv, TypeOK, Object
    <3>. QED
      BY <1>3, <2>1, <2>2, <3>1, OlderAfterWrite DEF CopiesOlder
  <2>. QED
    BY <1>1, <2>3 DEF CopiesOlder
<1>. QED
  BY <1>2, <1>3, FinishWrite

\* An informer delivery brings its copy up to the server's object.
LEMMA InformersCopiesOlder == RVInv /\ Informers => CopiesOlder'
<1>. SUFFICES ASSUME TypeInv, CopiesOlder, Informers PROVE CopiesOlder'
  BY DEF RVInv
<1>1. CASE \E a \in Auths : InformerDeliverAuthenticator(a)
  <2>. PICK a \in Auths : InformerDeliverAuthenticator(a)
    BY <1>1
  <2>1. /\ seen' = [seen EXCEPT ![a] = obj[a]]
        /\ UNCHANGED <<obj, stage, cur>>
    BY DEF InformerDeliverAuthenticator
  <2>2. \A x \in Auths : SameOrOlder(seen'[x], obj'[x])
    <3> SUFFICES ASSUME NEW x \in Auths PROVE SameOrOlder(seen'[x], obj'[x])
      OBVIOUS
    <3>1. seen \in [Auths -> Object]
      BY DEF TypeInv, TypeOK
    <3>2. CASE x = a
      <4>1. seen'[x] = obj[x]
        BY <2>1, <3>1, <3>2
      <4>2. obj[x].rv \in Nat
        BY DEF TypeInv, TypeOK, Object
      <4>. QED
        BY <2>1, <4>1, <4>2 DEF SameOrOlder
    <3>3. CASE x # a
      <4>1. seen'[x] = seen[x]
        BY <2>1, <3>1, <3>3
      <4>. QED
        BY <2>1, <4>1 DEF CopiesOlder
    <3>. QED
      BY <3>2, <3>3
  <2>. QED
    BY <2>1, <2>2 DEF CopiesOlder
<1>2. CASE \E r \in Refs : InformerDeliverBundle(r)
  BY <1>2 DEF CopiesOlder, InformerDeliverBundle
<1>. QED
  BY <1>1, <1>2 DEF Informers

LEMMA ResyncCopiesOlder == CopiesOlder /\ Resync => CopiesOlder'
BY DEF CopiesOlder, Resync

\* A spec edit or a hand-written status moves the object's resourceVersion,
\* so every copy taken before it is older; the other events leave objects alone.
LEMMA EnvironmentCopiesOlder == RVInv /\ Environment => CopiesOlder'
<1>. SUFFICES ASSUME TypeInv, CopiesOlder, Environment PROVE CopiesOlder'
  BY DEF RVInv
<1>1. CASE \E a \in Auths, s \in AuthSpec : EditSpec(a, s)
  <2>. PICK a \in Auths, s \in AuthSpec : EditSpec(a, s)
    BY <1>1
  <2>1. obj' = [obj EXCEPT ![a] = obj'[a]] /\ obj'[a].rv = obj[a].rv + 1
    BY WritesMoveRV DEF EditSpec, TypeInv, TypeOK
  <2>2. seen' = seen /\ UNCHANGED <<stage, cur>>
    BY DEF EditSpec, EnvStep
  <2>. QED
    BY <2>1, <2>2, WriteKeepsCopiesOlder
<1>2. CASE \E a \in Auths : EditStatus(a)
  <2>. PICK a \in Auths : EditStatus(a)
    BY <1>2
  <2>1. obj' = [obj EXCEPT ![a] = obj'[a]] /\ obj'[a].rv = obj[a].rv + 1
    BY WritesMoveRV DEF EditStatus, TypeInv, TypeOK
  <2>2. seen' = seen /\ UNCHANGED <<stage, cur>>
    BY DEF EditStatus, EnvStep
  <2>. QED
    BY <2>1, <2>2, WriteKeepsCopiesOlder
<1>3. CASE \/ \E r \in Refs, b \in BundleVals : EditBundle(r, b)
           \/ \E i \in Issuers : ServerUpDown(i)
           \/ \E i \in Issuers, b \in Bundles : RotateServerCert(i, b)
  <2>1. UNCHANGED <<obj, seen, stage, cur>>
    BY <1>3 DEF EditBundle, ServerUpDown, RotateServerCert, EnvStep
  <2>. QED
    BY <2>1 DEF CopiesOlder
<1>. QED
  BY <1>1, <1>2, <1>3 DEF Environment

LEMMA NextRVInv == RVInv /\ [Next]_vars => RVInv'
<1>. SUFFICES ASSUME RVInv, [Next]_vars PROVE RVInv'
  OBVIOUS
<1>1. TypeInv'
  BY NextTypeInv DEF RVInv
<1>2. CopiesOlder'
  BY SyncCopiesOlder, BeginCopiesOlder, ProbeCopiesOlder, FinishCopiesOlder,
     InformersCopiesOlder, ResyncCopiesOlder, EnvironmentCopiesOlder
  DEF RVInv, Next, Controller, CopiesOlder, vars
<1>. QED
  BY <1>1, <1>2 DEF RVInv

-----------------------------------------------------------------------------
(* Every step writes only statuses for the current generation. *)

\* The status write of a finishing sync lands only on the object it read,
\* so the generation it records is the object's.
LEMMA FinishStatusStep == RVInv /\ FinishSyncIndividual => StatusStep
<1>. SUFFICES ASSUME TypeInv, CopiesOlder, FinishSyncIndividual PROVE StatusStep
  BY DEF RVInv
<1>1. CASE obj' = obj
  BY <1>1 DEF StatusStep
<1>2. CASE /\ obj[cur.a].rv = cur.obj.rv
           /\ obj' = [obj EXCEPT ![cur.a] =
                        WithStatus(obj[cur.a], StatusFor(cur.conds, cur.obj.gen))]
  <2>1. cur.a \in Auths /\ obj \in [Auths -> Object] /\ stage = "finish"
    BY DEF TypeInv, TypeOK, Cur, FinishSyncIndividual
  <2>2. cur.obj = obj[cur.a]
    BY <1>2, <2>1 DEF CopiesOlder, SameOrOlder
  <2>3. /\ obj'[cur.a].status.gen = cur.obj.gen
        /\ obj'[cur.a].gen = obj[cur.a].gen
    BY <1>2, <2>1 DEF WithStatus, StatusFor
  <2>4. \A x \in Auths \ {cur.a} : obj'[x] = obj[x]
    BY <1>2, <2>1
  <2>. QED
    BY <2>2, <2>3, <2>4 DEF StatusStep
<1>. QED
  BY <1>1, <1>2, FinishWrite

\* A spec edit keeps the status and a hand-written status is Pending; the
\* other events do not touch the objects.
LEMMA EnvironmentStatusStep == TypeInv /\ Environment => StatusStep
<1>. SUFFICES ASSUME TypeInv, Environment PROVE StatusStep
  OBVIOUS
<1>0. obj \in [Auths -> Object]
  BY DEF TypeInv, TypeOK
<1>1. CASE \E a \in Auths, s \in AuthSpec : EditSpec(a, s)
  <2>. PICK a \in Auths, s \in AuthSpec : EditSpec(a, s)
    BY <1>1
  <2>1. obj' = [obj EXCEPT ![a] = WithSpec(obj[a], s)]
    BY DEF EditSpec
  <2>2. \A x \in Auths : obj'[x].status = obj[x].status
    BY <1>0, <2>1 DEF WithSpec
  <2>. QED
    BY <2>2 DEF StatusStep
<1>2. CASE \E a \in Auths : EditStatus(a)
  <2>. PICK a \in Auths : EditStatus(a)
    BY <1>2
  <2>1. obj' = [obj EXCEPT ![a] = WithStatus(obj[a],
                   [obj[a].status EXCEPT !.phase = "Pending"])]
    BY DEF EditStatus
  <2>2. obj'[a].status.phase = "Pending"
    BY <1>0, <2>1 DEF WithStatus, Object, Status
  <2>3. \A x \in Auths \ {a} : obj'[x] = obj[x]
    BY <1>0, <2>1
  <2>. QED
    BY <2>2, <2>3 DEF StatusStep
<1>3. CASE \/ \E r \in Refs, b \in BundleVals : EditBundle(r, b)
           \/ \E i \in Issuers : ServerUpDown(i)
           \/ \E i \in Issuers, b \in Bundles : RotateServerCert(i, b)
  BY <1>3 DEF EditBundle, ServerUpDown, RotateServerCert, StatusStep
<1>. QED
  BY <1>1, <1>2, <1>3 DEF Environment

LEMMA NextStatusStep == RVInv /\ [Next]_vars => [StatusStep]_vars
<1>. SUFFICES ASSUME RVInv, [Next]_vars PROVE [StatusStep]_vars
  OBVIOUS
<1>1. CASE FinishSyncIndividual
  BY <1>1, FinishStatusStep
<1>2. CASE Environment
  BY <1>2, EnvironmentStatusStep DEF RVInv
<1>3. CASE Sync \/ BeginSyncIndividual \/ DoExpensiveValidations \/ Informers
           \/ Resync \/ UNCHANGED vars
  <2>1. obj' = obj
    BY <1>3 DEF Sync, BeginSyncIndividual, DoExpensiveValidations, Informers,
                InformerDeliverAuthenticator, InformerDeliverBundle, Resync, vars
  <2>. QED
    BY <2>1 DEF StatusStep
<1>. QED
  BY <1>1, <1>2, <1>3 DEF Next, Controller

\* Whatever the number of authenticators and however the administrator's
\* edits interleave with the probes, every Ready or Error status updateStatus
\* lands records the generation of the object it lands on: the
\* resourceVersion check of UpdateStatus refuses a status computed from an
\* informer copy that predates a spec edit.
THEOREM StatusForCurrentGenerationHolds ==
    SpecNoFairness => StatusForCurrentGeneration
<1>1. Init => RVInv
  BY InitRVInv
<1>2. RVInv /\ [Next]_vars => RVInv'
  BY NextRVInv
<1>3. RVInv /\ [Next]_vars => [StatusStep]_vars
  BY NextStatusStep
<1>. QED
  BY <1>1, <1>2, <1>3, PTL DEF SpecNoFairness, StatusForCurrentGeneration,
                                StatusStep
=============================================================================
