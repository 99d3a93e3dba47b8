----------------------------- MODULE ReleaseProofs ----------------------------
(* Proofs about Release, for any tags, refs and number of jobs.  The tool cache    *)
(* knows a tag by its version only, and a candidate's is that of the release it    *)
(* precedes: what is cached stands for a tag (StandsFor), and is of it if no other  *)
(* tag has its version.                                                          *)
EXTENDS Release, FiniteSetTheorems, TLAPS

Executable == [tag : Tags \cup {NoRelease}, whole : BOOLEAN]
WholeOf(t) == [tag |-> t, whole |-> TRUE]
Fetching == {"find", "download", "copy"}

Types ==
  /\ github \in [Tags -> {"absent", "draft", "published"}]
  /\ cache \in [Keys -> Executable]
  /\ jobs \in 0 .. MaxJobs
  /\ pc \in {"idle", "resolve", "latest", "find", "download", "copy", "fallback", "spawn"}
  /\ ref \in Refs \cup {Local}
  /\ tool \in 1 .. 3
  /\ release \in Tags \cup {NoRelease}
  /\ pc \in Fetching => release \in Tags
  /\ binDir \in [Engine -> Executable]
  /\ onPath \in BOOLEAN
  /\ spawned \in Executable

(* A complete entry holds an executable of a release of its own version; both      *)
(* engine executables stand for the one release resolved before them; and nothing  *)
(* is copied to binDir once it is on PATH.                                        *)
CacheInv == \A k \in Keys : cache[k].whole => cache[k].tag \in Tags /\ k[2] = TagToSemver(cache[k].tag)
EngineInv ==
  /\ pc \in {"resolve", "latest"} => tool # 2
  /\ pc \in Fetching /\ tool = 2 => StandsFor(binDir[1], release)
  /\ onPath => tool = Binary /\ EngineWhole

ReleaseInv == Types /\ CacheInv /\ EngineInv /\ RunsWhatItResolved

-------------------------------------------------------------------------------
LEMMA KeyOfRelease ==
  ASSUME NEW t \in Tags, tool \in 1 .. 3
  PROVE  Key(t) \in Keys /\ Key(t)[2] = TagToSemver(t)
<1>1. Len(Tools) = 3
  BY DEF Tools
<1> QED BY <1>1 DEF Key, Keys

(* A hit stands for the release that was resolved, as does what is downloaded.     *)
LEMMA HitStandsForIt ==
  ASSUME Types, CacheInv, pc \in Fetching, Found(Key(release))
  PROVE  cache[Key(release)] \in Executable /\ StandsFor(cache[Key(release)], release)
<1>1. Key(release) \in Keys /\ Key(release)[2] = TagToSemver(release) /\ release \in Tags
  BY KeyOfRelease DEF Types
<1>2. cache[Key(release)].whole /\ cache[Key(release)].tag \in Tags
      /\ TagToSemver(cache[Key(release)].tag) = TagToSemver(release)
  BY <1>1 DEF CacheInv, Found
<1>3. OneOfItsVersion(release) => cache[Key(release)].tag = release
  BY <1>2 DEF OneOfItsVersion
<1>4. cache[Key(release)] \in Executable
  BY <1>1 DEF Types
<1> QED BY <1>2, <1>3, <1>4 DEF StandsFor

LEMMA CopyStandsForIt ==
  ASSUME NEW t \in Tags
  PROVE  WholeOf(t) \in Executable /\ StandsFor(WholeOf(t), t)
BY DEF WholeOf, Executable, StandsFor

LEMMA ReleaseInitInv == Init => ReleaseInv
<1> SUFFICES ASSUME Init PROVE ReleaseInv
  OBVIOUS
<1>1. Types
  <2>1. Nothing \in Executable /\ 0 \in 0 .. MaxJobs
    BY ReleaseAssumption DEF Nothing, Executable
  <2>2. github \in [Tags -> {"absent", "draft", "published"}] /\ cache \in [Keys -> Executable]
    BY <2>1 DEF Init
  <2>3. binDir \in [Engine -> Executable] /\ spawned \in Executable
    BY <2>1 DEF Init
  <2>4. jobs \in 0 .. MaxJobs /\ tool \in 1 .. 3
    BY <2>1 DEF Init
  <2>5. onPath \in BOOLEAN
    BY Zenon DEF Init
  <2> QED BY <2>2, <2>3, <2>4, <2>5 DEF Init, Types, Fetching
<1>2. CacheInv
  BY DEF Init, CacheInv, Nothing
<1> QED BY <1>1, <1>2 DEF Init, ReleaseInv, EngineInv, RunsWhatItResolved, Fetching

(* Obtaining an executable that stands for the resolved release, cached or not.    *)
LEMMA ObtainStep ==
  ASSUME ReleaseInv, CacheInv', cache' \in [Keys -> Executable], pc \in Fetching,
         NEW e \in Executable, StandsFor(e, release),
         Obtain(e), UNCHANGED <<github, jobs, ref, release, offered>>
  PROVE  ReleaseInv'
<1> USE DEF ReleaseInv, Types, EngineInv, Fetching, Engine, Binary
<1>1. CASE tool = 1
  <2>1. /\ tool' = 2 /\ pc' = "find" /\ UNCHANGED spawned
        /\ binDir' = [binDir EXCEPT ![1] = e]
    BY <1>1 DEF Obtain
  <2>2. onPath' = FALSE
    BY <1>1 DEF Obtain, PathNow
  <2>3. binDir'[1] = e /\ release' = release
    BY <2>1
  <2>4. EngineInv' /\ RunsWhatItResolved'
    <3>1. StandsFor(binDir'[1], release')
      BY <2>3
    <3>2. EngineInv'
      BY <2>1, <2>2, <3>1
    <3> QED BY <2>1, <3>2 DEF RunsWhatItResolved
  <2>5. Types'
    <3>1. onPath' \in BOOLEAN
      BY <2>2, Zenon
    <3>2. binDir' \in [Engine -> Executable]
      BY <2>1
    <3>3. release' \in Tags /\ spawned' \in Executable
      BY <2>1
    <3> QED BY <2>1, <3>1, <3>2, <3>3
  <2> QED BY <2>4, <2>5
<1>2. CASE tool = 2
  <2>1. /\ tool' = 3 /\ pc' = "resolve" /\ onPath' = TRUE /\ UNCHANGED spawned
        /\ binDir' = [binDir EXCEPT ![2] = e]
    <3>1. tool' = 2 + 1 /\ onPath' = (onPath \/ PathNow) /\ PathNow
          /\ pc' = (IF tool' = 3 THEN "resolve" ELSE "find") /\ UNCHANGED spawned
          /\ binDir' = [binDir EXCEPT ![2] = e]
      BY <1>2 DEF Obtain, PathNow
    <3>2. onPath' = TRUE
      BY <3>1, Zenon
    <3> QED BY <3>1, <3>2
  <2>2. binDir' \in [Engine -> Executable] /\ binDir'[1] = binDir[1] /\ binDir'[2] = e
    BY <2>1
  <2>3. StandsFor(binDir'[1], release) /\ StandsFor(binDir'[2], release) /\ release \in Tags
    BY <1>2, <2>2
  <2>4. EngineWhole'
    BY <2>3 DEF EngineWhole
  <2> QED BY <2>1, <2>2, <2>4 DEF RunsWhatItResolved
<1>3. CASE tool = 3
  <2>1. spawned' = e /\ pc' = "spawn" /\ UNCHANGED <<binDir, onPath, tool>>
    BY <1>3 DEF Obtain
  <2>2. StandsFor(spawned', release')
    BY <2>1
  <2>3. EngineWhole'
    BY <1>3, <2>1 DEF EngineWhole
  <2> QED BY <2>1, <2>2, <2>3 DEF RunsWhatItResolved
<1> QED BY <1>1, <1>2, <1>3

LEMMA ReleaseNextInv == ReleaseInv /\ [Next]_vars => ReleaseInv'
<1> SUFFICES ASSUME ReleaseInv, [Next]_vars PROVE ReleaseInv'
  OBVIOUS
<1>0. UNCHANGED cache => CacheInv'
  BY DEF ReleaseInv, CacheInv
<1> USE ReleaseAssumption DEF Engine, Binary, Fetching
<1>1. ASSUME NEW r \in Refs \cup {Local}, Begin(r) PROVE ReleaseInv'
  <2>1. Nothing \in Executable /\ jobs + 1 \in 0 .. MaxJobs
    BY <1>1 DEF Begin, Nothing, Executable, ReleaseInv, Types
  <2>2. tool' \in {1, 3} /\ pc' \in {"resolve", "fallback"}
    BY <1>1 DEF Begin
  <2>3. Types'
    <3>1. binDir' \in [Engine -> Executable] /\ spawned' \in Executable
      BY <1>1, <2>1 DEF Begin
    <3>2. jobs' \in 0 .. MaxJobs /\ tool' \in 1 .. 3 /\ release' = NoRelease
      BY <1>1, <2>1, <2>2 DEF Begin
    <3>3. onPath' \in BOOLEAN
      BY <1>1, Zenon DEF Begin
    <3> QED BY <1>1, <2>2, <3>1, <3>2, <3>3 DEF Begin, ReleaseInv, Types
  <2> QED BY <1>0, <1>1, <2>2, <2>3 DEF Begin, ReleaseInv, EngineInv, RunsWhatItResolved
<1>2. ASSUME NEW t \in Tags, Hit(t) \/ GotLatest(t) PROVE ReleaseInv'
  BY <1>0, <1>2 DEF Hit, GotLatest, Goes, kept, ReleaseInv, Types, EngineInv,
                    RunsWhatItResolved, EngineWhole
<1>12. CASE NoHit
  BY <1>0, <1>12 DEF NoHit, Goes, kept, ReleaseInv, Types, EngineInv,
                    RunsWhatItResolved, EngineWhole
<1>3. CASE FindHit
  <2>1. /\ cache[Key(release)] \in Executable /\ StandsFor(cache[Key(release)], release)
        /\ Obtain(cache[Key(release)])
    BY <1>3, HitStandsForIt DEF FindHit, ReleaseInv
  <2> QED BY <1>0, <1>3, <2>1, ObtainStep DEF FindHit, ReleaseInv, Types
<1>4. CASE FindMiss
  BY <1>0, <1>4 DEF FindMiss, Goes, kept, ReleaseInv, Types, EngineInv, RunsWhatItResolved,
                    EngineWhole
<1>5. CASE Downloaded
  <2>1. cache' = [cache EXCEPT ![Key(release)] = [tag |-> release, whole |-> FALSE]]
        /\ cache' \in [Keys -> Executable] /\ CacheInv'
    BY <1>5, KeyOfRelease DEF Downloaded, Goes, ReleaseInv, Types, Executable, CacheInv
  <2> QED BY <1>5, <2>1 DEF Downloaded, Goes, kept, ReleaseInv, Types, EngineInv,
                            RunsWhatItResolved, EngineWhole
<1>6. CASE Copied
  <2>1. Obtain(WholeOf(release)) /\ release \in Tags
        /\ cache' = [cache EXCEPT ![Key(release)] = WholeOf(release)]
    BY <1>6 DEF Copied, WholeOf, ReleaseInv, Types
  <2>2. Key(release) \in Keys /\ Key(release)[2] = TagToSemver(release)
    BY <2>1, KeyOfRelease DEF ReleaseInv, Types
  <2>3. cache' \in [Keys -> Executable] /\ CacheInv'
    BY <2>1, <2>2 DEF ReleaseInv, Types, CacheInv, Executable, WholeOf
  <2> QED BY <1>6, <2>1, <2>3, CopyStandsForIt, ObtainStep DEF Copied
<1>7. CASE Fails
  BY <1>0, <1>7 DEF Fails, kept, ReleaseInv, Types, EngineInv, RunsWhatItResolved, EngineWhole
<1>8. CASE BuildFromSource
  BY <1>0, <1>8 DEF BuildFromSource, Goes, ReleaseInv, Types, EngineInv, RunsWhatItResolved,
                    EngineWhole, Source, Executable
<1>9. CASE Ends
  BY <1>0, <1>9 DEF Ends, ReleaseInv, Types, EngineInv, RunsWhatItResolved, EngineWhole,
                    Nothing, Executable
<1>10. ASSUME NEW t \in Tags, Draft(t) \/ Publish(t) PROVE ReleaseInv'
  <2>1. UNCHANGED <<cache, jobVars>> /\ github' \in [Tags -> {"absent", "draft", "published"}]
    BY <1>10 DEF Draft, Publish, ReleaseInv, Types
  <2>2. Types' /\ CacheInv'
    BY <1>0, <2>1 DEF jobVars, ReleaseInv, Types
  <2>3. EngineInv' /\ RunsWhatItResolved'
    BY <2>1 DEF jobVars, ReleaseInv, EngineInv, EngineWhole, RunsWhatItResolved
  <2> QED BY <2>2, <2>3 DEF ReleaseInv
<1>11. CASE UNCHANGED vars
  BY <1>0, <1>11 DEF vars, jobVars, ReleaseInv, Types, EngineInv, RunsWhatItResolved,
                     EngineWhole
<1> QED BY <1>1, <1>2, <1>3, <1>4, <1>5, <1>6, <1>7, <1>8, <1>9, <1>10, <1>11, <1>12
        DEF Next, Job, Finished

(* What is published stays so, and with it what was when the job began.           *)
LEMMA UsableGrows ==
  ASSUME ReleaseInv, [Next]_vars
  PROVE  /\ Usable \subseteq Usable'
         /\ offered \subseteq Usable => offered' \subseteq Usable'
<1>1. ASSUME NEW t \in Tags, Draft(t) \/ Publish(t) PROVE Usable \subseteq Usable' /\ offered' = offered
  BY <1>1 DEF Draft, Publish, jobVars, Usable, ReleaseInv, Types
<1>2. ASSUME UNCHANGED github PROVE Usable \subseteq Usable'
  BY <1>2 DEF Usable
<1>3. ASSUME NEW r \in Refs \cup {Local}, Begin(r) PROVE UNCHANGED github /\ offered' = Usable
  BY <1>3 DEF Begin
<1>4. CASE Ends
  <2>1. UNCHANGED github /\ offered' = {}
    BY <1>4 DEF Ends
  <2> QED BY <1>2, <2>1
<1>5. ASSUME NEW t \in Tags, Hit(t) \/ GotLatest(t) PROVE UNCHANGED <<github, offered>>
  BY <1>5 DEF Hit, GotLatest, kept
<1>6. CASE NoHit \/ FindHit \/ FindMiss \/ Downloaded \/ Copied \/ Fails \/ BuildFromSource
  <2>1. UNCHANGED <<github, offered>>
    BY <1>6 DEF NoHit, FindHit, FindMiss, Downloaded, Copied, Fails, BuildFromSource, kept
  <2> QED BY <1>2, <2>1
<1>7. CASE UNCHANGED vars
  <2>1. UNCHANGED <<github, offered>>
    BY <1>7 DEF vars, jobVars
  <2> QED BY <1>2, <2>1
<1> QED BY <1>1, <1>2, <1>3, <1>4, <1>5, <1>6, <1>7 DEF Next, Job, Finished

-------------------------------------------------------------------------------
(* What the theorems below rest on.                                              *)
THEOREM ReleaseInvariance == Spec => [](ReleaseInv /\ offered \subseteq Usable)
<1>1. Init => ReleaseInv /\ offered \subseteq Usable
  BY ReleaseInitInv DEF Init
<1>2. (ReleaseInv /\ offered \subseteq Usable) /\ [Next]_vars
        => (ReleaseInv /\ offered \subseteq Usable)'
  BY ReleaseNextInv, UsableGrows
<1> QED BY <1>1, <1>2, PTL DEF Spec

(* What a job runs is whole and of the version resolved for it, and of that very    *)
(* release if no other has its version, whatever other jobs left in the tool cache. *)
THEOREM RunsItsRelease == Spec => []RunsWhatItResolved
<1>1. ReleaseInv => RunsWhatItResolved
  BY DEF ReleaseInv
<1> QED BY ReleaseInvariance, <1>1, PTL

(* An engine on PATH is whole, and both its executables stand for one release.     *)
THEOREM EngineOnPath == Spec => []EngineWhole
<1>1. ReleaseInv => EngineWhole
  BY DEF ReleaseInv, EngineInv, EngineWhole
<1> QED BY ReleaseInvariance, <1>1, PTL

(* The variables keep their types; in particular something is fetched only of a     *)
(* release that was resolved.                                                     *)
THEOREM ReleaseTypeCorrect == Spec => []TypeOK
<1>1. ReleaseInv /\ offered \subseteq Usable => TypeOK
  BY DEF ReleaseInv, Types, TypeOK, Executable, Fetching, Tools
<1> QED BY ReleaseInvariance, <1>1, PTL

-------------------------------------------------------------------------------
(* Resolution.  Versions are ordered, so of finitely many releases one is highest:  *)
(* the releases above a higher one are fewer, which cannot go on for ever.          *)
LEMMA Ordered ==
  /\ \A t \in Tags, i \in 1 .. 3 : TagToSemver(t)[i] \in Nat
  /\ \A t \in Tags : ~Precedes(TagToSemver(t), TagToSemver(t))
  /\ \A t, u, v \in Tags :
       Precedes(TagToSemver(t), TagToSemver(u)) /\ Precedes(TagToSemver(u), TagToSemver(v))
         => Precedes(TagToSemver(t), TagToSemver(v))
<1>1. ASSUME NEW t \in Tags, NEW i \in 1 .. 3 PROVE TagToSemver(t)[i] \in Nat
  BY ReleaseAssumption DEF TagToSemver
<1>2. ASSUME NEW v, NEW w
      PROVE  Precedes(v, w) <=> \/ v[1] < w[1]
                                \/ v[1] = w[1] /\ v[2] < w[2]
                                \/ v[1] = w[1] /\ v[2] = w[2] /\ v[3] < w[3]
  <2>1. 1 .. 3 = {1, 2, 3} /\ 1 .. 1 - 1 = {} /\ 1 .. 2 - 1 = {1} /\ 1 .. 3 - 1 = {1, 2}
    OBVIOUS
  <2> QED BY <2>1 DEF Precedes
<1>3. ASSUME NEW t \in Tags PROVE ~Precedes(TagToSemver(t), TagToSemver(t))
  BY <1>1, <1>2
<1>4. ASSUME NEW t \in Tags, NEW u \in Tags, NEW v \in Tags,
             Precedes(TagToSemver(t), TagToSemver(u)), Precedes(TagToSemver(u), TagToSemver(v))
      PROVE  Precedes(TagToSemver(t), TagToSemver(v))
  <2>1. \A i \in {1, 2, 3} : TagToSemver(t)[i] \in Nat /\ TagToSemver(u)[i] \in Nat
                             /\ TagToSemver(v)[i] \in Nat
    BY <1>1
  <2> QED BY <1>2, <1>4, <2>1
<1> QED BY <1>1, <1>3, <1>4

LEMMA HighestExists ==
  ASSUME NEW S \in SUBSET Tags, S # {}, IsFiniteSet(Tags)
  PROVE  Highest(S) # {}
<1> DEFINE Above(t) == {u \in S : Precedes(TagToSemver(t), TagToSemver(u))}
           Family == {Above(t) : t \in S}
<1>1. IsFiniteSet(S)
  BY FS_Subset
<1>2. IsWellFoundedOn(StrictSubsetOrdering(S), SUBSET S)
  BY <1>1, FS_FiniteSubsetsOfFinite, FS_StrictSubsetOrderingWellFounded
<1>3. PICK A \in Family : \A B \in Family : <<B, A>> \notin StrictSubsetOrdering(S)
  <2>1. Family \subseteq SUBSET S /\ Family # {}
    OBVIOUS
  <2> HIDE DEF Family
  <2> QED BY <1>2, <2>1, WFMin
<1>4. PICK t \in S : A = Above(t)
  OBVIOUS
<1>5. ASSUME NEW u \in Above(t) PROVE FALSE
  <2>1. Above(u) \subseteq Above(t) /\ u \notin Above(u)
    BY Ordered
  <2>2. Above(u) \in Family /\ Above(u) \in SUBSET S /\ Above(t) \in SUBSET S
    OBVIOUS
  <2>3. <<Above(u), Above(t)>> \in StrictSubsetOrdering(S)
    BY <1>5, <2>1, <2>2 DEF StrictSubsetOrdering
  <2> QED BY <1>3, <1>4, <2>2, <2>3
<1> QED BY <1>4, <1>5 DEF Highest

-------------------------------------------------------------------------------
(* What a resolution promises.  Release r fits tag t if it is what the ref names, or *)
(* is of the range and no older than t, if t is of it.                             *)
Fits(r, t) ==
  InRange(t) =>
    \/ ref \in Usable /\ r = ref
    \/ InRange(r) /\ ~Precedes(TagToSemver(r), TagToSemver(t))

(* Everything fetched, cached or on PATH is of published releases.                 *)
PublishedInv ==
  /\ offered \subseteq Usable
  /\ pc \in Fetching => release \in Usable
  /\ \A k \in Keys : cache[k].whole => cache[k].tag \in Usable
  /\ onPath => \E t \in Usable : StandsFor(binDir[1], t)

(* A list without a hit had nothing of the range, and no engine of the range can be  *)
(* on PATH by then; and what is fetched fits what was offered, and the engine.      *)
EmptyInv ==
  pc = "latest" /\ ByVersion =>
    /\ ref \notin offered /\ \A t \in offered : ~InRange(t)
    /\ onPath => ~InRange(binDir[1].tag)
FitInv ==
  pc \in Fetching /\ ByVersion =>
    /\ ref \in offered => release = ref
    /\ \A t \in offered : Fits(release, t)
    /\ onPath => Fits(release, binDir[1].tag)

FreshInv == PublishedInv /\ EmptyInv /\ FitInv /\ UpToDate /\ EngineNotNewer

LEMMA ListPicks ==
  ASSUME IsFiniteSet(Tags), ByVersion
  PROVE  /\ \A r \in Picks(ref) : r \in Usable /\ (ref \in Usable => r = ref)
                                 /\ \A t \in Usable : Fits(r, t)
         /\ Picks(ref) = {} => ref \notin Usable /\ \A t \in Usable : ~InRange(t)
<1> DEFINE Candidates == {t \in Usable : Satisfies(TagToSemver(t), ref)}
<1>1. \A t \in Usable : t \in Candidates <=> InRange(t)
  BY DEF InRange, Satisfies, ByVersion
<1>2. Candidates \in SUBSET Tags
  BY DEF Usable
<1>3. Picks(ref) = IF ref \in Usable THEN {ref} ELSE Highest(Candidates)
  BY DEF Picks
<1>4. \A r \in Highest(Candidates) :
        r \in Candidates /\ \A t \in Candidates : ~Precedes(TagToSemver(r), TagToSemver(t))
  BY DEF Highest
<1>5. Candidates # {} => Highest(Candidates) # {}
  BY <1>2, HighestExists
<1> HIDE DEF Candidates
<1>6. Candidates \subseteq Usable
  BY DEF Candidates
<1>7. ASSUME NEW r \in Picks(ref)
      PROVE  r \in Usable /\ (ref \in Usable => r = ref) /\ \A t \in Usable : Fits(r, t)
  BY <1>1, <1>3, <1>4, <1>6, <1>7 DEF Fits
<1>8. ASSUME Picks(ref) = {} PROVE ref \notin Usable /\ \A t \in Usable : ~InRange(t)
  BY <1>1, <1>3, <1>5, <1>8
<1> QED BY <1>7, <1>8

(* Tags of one version fit alike, and a copy of such a tag is as new.               *)
LEMMA SameVersion ==
  ASSUME NEW r, NEW t, NEW u, TagToSemver(t) = TagToSemver(u)
  PROVE  /\ InRange(t) <=> InRange(u)
         /\ Fits(r, t) <=> Fits(r, u)
BY DEF InRange, Fits

LEMMA CopyFits ==
  ASSUME NEW e, NEW r \in Tags, NEW t, StandsFor(e, r), Fits(r, t)
  PROVE  NoOlder(e, t)
<1>1. TagToSemver(e.tag) = TagToSemver(r)
  BY DEF StandsFor
<1>2. InRange(e.tag) <=> InRange(r)
  BY <1>1, SameVersion
<1> QED BY <1>1, <1>2 DEF Fits, NoOlder

(* Steps that leave what was resolved, or what is run, as it is.                   *)
LEMMA FitStays ==
  ASSUME ReleaseInv, FitInv, [Next]_vars, pc \in Fetching,
         UNCHANGED <<ref, release, offered>>, onPath' => onPath /\ binDir' = binDir
  PROVE  FitInv'
<1>1. Usable \subseteq Usable'
  BY UsableGrows
<1>2. \A r, t : Fits(r, t) => Fits(r, t)'
  BY <1>1 DEF Fits, InRange
<1>3. ByVersion' = ByVersion
  BY DEF ByVersion
<1>4. ASSUME ByVersion
      PROVE  /\ ref' \in offered' => release' = ref'
             /\ \A t \in offered' : Fits(release, t)'
             /\ onPath' => Fits(release, binDir[1].tag)'
  BY <1>2, <1>4 DEF FitInv
<1> QED BY <1>3, <1>4 DEF FitInv

LEMMA SpawnStays ==
  ASSUME ReleaseInv, UpToDate, EngineNotNewer, [Next]_vars,
         \A t \in Tags : github[t] = "published" => github'[t] = "published",
         UNCHANGED <<pc, ref, spawned, offered, binDir, onPath>>
  PROVE  UpToDate' /\ EngineNotNewer'
<1>1. Usable \subseteq Usable'
  BY UsableGrows
<1>2. \A e, t : NoOlder(e, t) => NoOlder(e, t)'
  BY <1>1 DEF NoOlder, InRange, StandsFor
<1>3. ByVersion' = ByVersion
  BY DEF ByVersion
<1>4. UpToDate'
  <2> SUFFICES ASSUME pc = "spawn", spawned # Source
               PROVE  /\ spawned.tag \in Tags /\ github'[spawned.tag] = "published"
                      /\ ByVersion => /\ ref \in offered => StandsFor(spawned, ref)
                                      /\ \A t \in offered : NoOlder(spawned, t)'
    BY <1>3 DEF UpToDate, StandsFor
  <2> QED BY <1>2 DEF UpToDate
<1>5. EngineNotNewer'
  <2> SUFFICES ASSUME pc = "spawn", spawned # Source, onPath, ByVersion
               PROVE  NoOlder(spawned, binDir[1].tag)'
    BY <1>3 DEF EngineNotNewer
  <2> QED BY <1>2 DEF EngineNotNewer
<1> QED BY <1>4, <1>5

(* Where nothing has been resolved or run, nothing is promised.                    *)
LEMMA NothingPromised ==
  ASSUME pc' \in {"idle", "resolve", "fallback"} \/ (pc' = "spawn" /\ spawned' = Source)
  PROVE  EmptyInv' /\ FitInv' /\ UpToDate' /\ EngineNotNewer'
BY DEF EmptyInv, FitInv, UpToDate, EngineNotNewer, Fetching

LEMMA HitStep ==
  ASSUME IsFiniteSet(Tags), ReleaseInv, FreshInv, [Next]_vars,
         NEW r \in Tags, Hit(r) \/ GotLatest(r)
  PROVE  FreshInv'
<1>1. /\ pc' = "find" /\ release' = r
      /\ UNCHANGED <<github, cache, ref, offered, binDir, onPath>>
  BY DEF Hit, GotLatest, Goes, kept
<1>2. r \in Usable
  BY DEF Hit, GotLatest, Picks, Highest, Latest
<1>3. Usable' = Usable
  BY <1>1 DEF Usable
<1>4. PublishedInv'
  BY <1>1, <1>2, <1>3 DEF FreshInv, PublishedInv, StandsFor
<1>5. ASSUME ByVersion
      PROVE  /\ ref \in offered => r = ref
             /\ \A t \in offered : Fits(r, t)
             /\ onPath => Fits(r, binDir[1].tag)
  <2>1. CASE Hit(r)
    <3>1. \A t \in Usable : Fits(r, t)
      BY <1>5, <2>1, ListPicks DEF Hit
    <3>2. offered \subseteq Usable /\ (ref \in Usable => r = ref)
      BY <1>5, <2>1, ListPicks DEF Hit, FreshInv, PublishedInv
    <3>3. ASSUME onPath PROVE Fits(r, binDir[1].tag)
      <4>1. PICK t \in Usable : StandsFor(binDir[1], t)
        BY <3>3 DEF FreshInv, PublishedInv
      <4>2. TagToSemver(binDir[1].tag) = TagToSemver(t)
        BY <4>1 DEF StandsFor
      <4> QED BY <3>1, <4>2, SameVersion
    <3> QED BY <3>1, <3>2, <3>3
  <2>2. CASE GotLatest(r)
    BY <1>5, <2>2 DEF GotLatest, Goes, FreshInv, EmptyInv, Fits
  <2> QED BY <2>1, <2>2
<1>6. FitInv'
  <2>1. ByVersion' = ByVersion /\ \A q, t : Fits(q, t)' = Fits(q, t)
    BY <1>1, <1>3 DEF ByVersion, Fits, InRange
  <2> QED BY <1>1, <1>5, <2>1 DEF FitInv
<1> QED BY <1>1, <1>4, <1>6 DEF FreshInv, EmptyInv, UpToDate, EngineNotNewer

LEMMA NoHitStep ==
  ASSUME IsFiniteSet(Tags), ReleaseInv, FreshInv, NoHit
  PROVE  FreshInv'
<1>1. /\ pc' = "latest" /\ UNCHANGED <<github, cache, ref, offered, binDir, onPath>>
      /\ ByVersion => Picks(ref) = {}
  BY DEF NoHit, Goes, kept, ByVersion
<1>2. Usable' = Usable
  BY <1>1 DEF Usable
<1>3. PublishedInv'
  BY <1>1, <1>2 DEF FreshInv, PublishedInv, StandsFor, Fetching
<1>4. ASSUME ByVersion
      PROVE  /\ ref \notin offered /\ \A t \in offered : ~InRange(t)
             /\ onPath => ~InRange(binDir[1].tag)
  <2>1. ref \notin Usable /\ \A t \in Usable : ~InRange(t)
    BY <1>1, <1>4, ListPicks
  <2>2. ASSUME onPath PROVE ~InRange(binDir[1].tag)
    <3>1. PICK t \in Usable : StandsFor(binDir[1], t)
      BY <2>2 DEF FreshInv, PublishedInv
    <3>2. TagToSemver(binDir[1].tag) = TagToSemver(t)
      BY <3>1 DEF StandsFor
    <3> QED BY <2>1, <3>2, SameVersion
  <2> QED BY <2>1, <2>2 DEF FreshInv, PublishedInv
<1>5. EmptyInv'
  <2>1. ByVersion' = ByVersion /\ \A t : InRange(t)' = InRange(t)
    BY <1>1 DEF ByVersion, InRange
  <2> QED BY <1>1, <1>4, <2>1 DEF EmptyInv
<1> QED BY <1>1, <1>3, <1>5 DEF FreshInv, FitInv, UpToDate, EngineNotNewer, Fetching

(* An executable obtained: of a published release, standing for the resolved one.   *)
LEMMA FreshObtain ==
  ASSUME ReleaseInv, FreshInv, [Next]_vars, pc \in Fetching,
         NEW e, StandsFor(e, release), e.tag \in Usable, Obtain(e),
         UNCHANGED <<github, jobs, ref, release, offered>>,
         \A k \in Keys : cache'[k].whole => cache'[k].tag \in Usable
  PROVE  FreshInv'
<1> USE DEF Engine, Binary
<1>1. Usable' = Usable /\ ByVersion' = ByVersion
  BY DEF Usable, ByVersion
<1>2. \A k \in Keys : cache'[k].whole => cache'[k].tag \in Usable'
  BY <1>1
<1>3. offered' \subseteq Usable' /\ release' \in Usable' /\ release \in Tags
  BY <1>1 DEF FreshInv, PublishedInv, Usable
<1>4. CASE tool = 1
  <2>1. pc' = "find" /\ ~onPath'
    <3>1. ~onPath
      BY <1>4 DEF ReleaseInv, EngineInv
    <3>2. pc' = "find" /\ onPath' = (onPath \/ PathNow) /\ ~PathNow
      BY <1>4 DEF Obtain, PathNow
    <3> QED BY <3>1, <3>2, Zenon
  <2>2. FitInv'
    BY <2>1, FitStays DEF FreshInv
  <2>3. PublishedInv'
    BY <1>2, <1>3, <2>1 DEF PublishedInv
  <2> QED BY <2>1, <2>2, <2>3 DEF FreshInv, EmptyInv, UpToDate, EngineNotNewer
<1>5. CASE tool = 2
  <2>1. pc' = "resolve" /\ binDir' = [binDir EXCEPT ![2] = e]
    BY <1>5 DEF Obtain
  <2>2. StandsFor(binDir[1], release) /\ binDir'[1] = binDir[1]
    BY <1>5, <2>1 DEF ReleaseInv, EngineInv, Types
  <2>3. \E t \in Usable' : StandsFor(binDir'[1], t)
    BY <1>1, <1>3, <2>2
  <2>4. (\E t \in Usable : StandsFor(binDir[1], t))'
    BY <2>3 DEF StandsFor, OneOfItsVersion
  <2>5. PublishedInv'
    BY <1>2, <1>3, <2>1, <2>4 DEF PublishedInv, Fetching
  <2> QED BY <2>1, <2>5, NothingPromised DEF FreshInv
<1>6. CASE tool = 3
  <2>1. spawned' = e /\ pc' = "spawn" /\ UNCHANGED <<binDir, onPath, tool>>
    BY <1>6 DEF Obtain
  <2>2. PublishedInv'
    <3>1. onPath' => (\E t \in Usable : StandsFor(binDir[1], t))'
      BY <1>1, <2>1 DEF FreshInv, PublishedInv, StandsFor
    <3> QED BY <1>2, <1>3, <2>1, <3>1 DEF PublishedInv, Fetching
  <2>3. \A x, t : NoOlder(x, t)' = NoOlder(x, t)
    BY <1>1 DEF NoOlder, InRange, StandsFor
  <2>4. ASSUME ByVersion
        PROVE  /\ ref \in offered => StandsFor(e, ref)
               /\ \A t \in offered : NoOlder(e, t)
               /\ onPath => NoOlder(e, binDir[1].tag)
    BY <1>3, <2>4, CopyFits DEF FreshInv, FitInv
  <2>5. UpToDate'
    <3>1. e.tag \in Tags /\ github'[e.tag] = "published"
      BY DEF Usable
    <3>2. ByVersion' => /\ ref' \in offered' => StandsFor(spawned', ref')
                       /\ \A t \in offered' : NoOlder(spawned, t)'
      BY <1>1, <2>1, <2>3, <2>4 DEF NoOlder
    <3> QED BY <2>1, <3>1, <3>2 DEF UpToDate, StandsFor
  <2>6. EngineNotNewer'
    BY <1>1, <2>1, <2>3, <2>4 DEF EngineNotNewer, NoOlder
  <2> QED BY <2>1, <2>2, <2>5, <2>6 DEF FreshInv, EmptyInv, FitInv, Fetching
<1> QED BY <1>4, <1>5, <1>6 DEF ReleaseInv, Types

LEMMA FreshNextInv ==
  ASSUME IsFiniteSet(Tags), ReleaseInv, ReleaseInv', FreshInv, [Next]_vars
  PROVE  FreshInv'
<1> USE DEF Fetching
<1>0. /\ Usable \subseteq Usable'
      /\ offered' \subseteq Usable'
  BY UsableGrows DEF FreshInv, PublishedInv
<1>1. ASSUME NEW r \in Refs \cup {Local}, Begin(r) PROVE FreshInv'
  <2>1. pc' \in {"resolve", "fallback"} /\ onPath' = FALSE /\ cache' = cache
    BY <1>1 DEF Begin
  <2>2. PublishedInv'
    BY <1>0, <2>1 DEF FreshInv, PublishedInv
  <2> QED BY <2>1, <2>2, NothingPromised DEF FreshInv
<1>2. ASSUME NEW t \in Tags, Hit(t) \/ GotLatest(t) PROVE FreshInv'
  BY <1>2, HitStep
<1>3. CASE NoHit
  BY <1>3, NoHitStep
<1>4. CASE FindHit
  <2>1. Key(release) \in Keys /\ release \in Tags
    BY <1>4, KeyOfRelease DEF FindHit, ReleaseInv, Types
  <2>2. StandsFor(cache[Key(release)], release) /\ cache[Key(release)].tag \in Usable
    BY <1>4, <2>1, HitStandsForIt DEF FindHit, Found, ReleaseInv, FreshInv, PublishedInv
  <2> QED BY <1>4, <2>2, FreshObtain DEF FindHit, FreshInv, PublishedInv
<1>5. CASE Copied
  <2>1. Key(release) \in Keys /\ release \in Tags /\ release \in Usable
    BY <1>5, KeyOfRelease DEF Copied, ReleaseInv, Types, FreshInv, PublishedInv
  <2>2. StandsFor(WholeOf(release), release) /\ WholeOf(release).tag \in Usable
    BY <2>1, CopyStandsForIt DEF WholeOf
  <2>3. cache' = [cache EXCEPT ![Key(release)] = WholeOf(release)] /\ Obtain(WholeOf(release))
        /\ UNCHANGED <<github, jobs, ref, release, offered>> /\ pc \in Fetching
    BY <1>5 DEF Copied, WholeOf
  <2>4. \A k \in Keys : cache'[k].whole => cache'[k].tag \in Usable
    BY <2>1, <2>2, <2>3 DEF FreshInv, PublishedInv, ReleaseInv, Types
  <2> QED BY <2>2, <2>3, <2>4, FreshObtain
<1>6. CASE FindMiss \/ Downloaded
  <2>1. /\ pc \in {"find", "download"} /\ pc' \in {"download", "copy"}
        /\ UNCHANGED <<github, ref, release, offered, binDir, onPath>>
    BY <1>6 DEF FindMiss, Downloaded, Goes, kept
  <2>2. FitInv'
    BY <2>1, FitStays DEF FreshInv
  <2>3. \A k \in Keys : cache'[k].whole => cache'[k].tag \in Usable
    BY <1>6 DEF FindMiss, Downloaded, FreshInv, PublishedInv, ReleaseInv, Types
  <2>4. PublishedInv'
    BY <1>0, <2>1, <2>3 DEF FreshInv, PublishedInv, StandsFor
  <2> QED BY <2>1, <2>2, <2>4 DEF FreshInv, EmptyInv, UpToDate, EngineNotNewer
<1>7. CASE Fails \/ BuildFromSource \/ Ends
  <2>1. /\ pc' \in {"idle", "resolve", "fallback"} \/ (pc' = "spawn" /\ spawned' = Source)
        /\ UNCHANGED <<cache, binDir, onPath>>
    BY <1>7 DEF Fails, BuildFromSource, Ends, Goes, kept
  <2>2. PublishedInv'
    BY <1>0, <2>1 DEF FreshInv, PublishedInv, StandsFor
  <2> QED BY <2>1, <2>2, NothingPromised DEF FreshInv
<1>8. CASE (\E t \in Tags : Draft(t) \/ Publish(t)) \/ UNCHANGED vars
  <2>1. UNCHANGED <<cache, pc, ref, release, binDir, onPath, spawned, offered>>
    BY <1>8 DEF Draft, Publish, vars, jobVars
  <2>2. \A t \in Tags : github[t] = "published" => github'[t] = "published"
    BY <1>0 DEF Usable
  <2>3. UpToDate' /\ EngineNotNewer'
    BY <2>1, <2>2, SpawnStays DEF FreshInv
  <2>4. FitInv'
    <3>1. CASE pc \in Fetching
      BY <2>1, <3>1, FitStays DEF FreshInv
    <3>2. CASE pc \notin Fetching
      BY <2>1, <3>2 DEF FitInv
    <3> QED BY <3>1, <3>2
  <2>5. EmptyInv'
    BY <2>1 DEF FreshInv, EmptyInv, ByVersion, InRange
  <2>6. PublishedInv'
    BY <1>0, <2>1 DEF FreshInv, PublishedInv, StandsFor
  <2> QED BY <2>3, <2>4, <2>5, <2>6 DEF FreshInv
<1> QED BY <1>1, <1>2, <1>3, <1>4, <1>5, <1>6, <1>7, <1>8 DEF Next, Job, Finished

(* What the two theorems below rest on, of finitely many tags.                      *)
THEOREM FreshInvariance == ASSUME IsFiniteSet(Tags) PROVE Spec => []FreshInv
<1>1. Init => FreshInv
  BY DEF Init, FreshInv, PublishedInv, EmptyInv, FitInv, UpToDate, EngineNotNewer, Fetching, Nothing
<1>2. FreshInv /\ (ReleaseInv /\ ReleaseInv') /\ [Next]_vars => FreshInv'
  BY FreshNextInv
<1>3. ReleaseInv /\ offered \subseteq Usable => ReleaseInv
  OBVIOUS
<1> QED BY ReleaseInvariance, <1>1, <1>2, <1>3, PTL DEF Spec

(* What a job runs is what its ref names, or of the ref's range and no older than     *)
(* anything that was published of it when the job began, never a draft: whatever is  *)
(* published between the two requests of a resolution, and whatever is cached.       *)
THEOREM StaysUpToDate == ASSUME IsFiniteSet(Tags) PROVE Spec => []UpToDate
<1>1. FreshInv => UpToDate
  BY DEF FreshInv
<1> QED BY FreshInvariance, <1>1, PTL

(* The binary is never of an older release of the range than the engine on PATH.     *)
THEOREM EngineNeverNewer == ASSUME IsFiniteSet(Tags) PROVE Spec => []EngineNotNewer
<1>1. FreshInv => EngineNotNewer
  BY DEF FreshInv
<1> QED BY FreshInvariance, <1>1, PTL
===============================================================================
