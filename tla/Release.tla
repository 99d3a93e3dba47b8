-------------------------------- MODULE Release ---------------------------------
(***************************************************************************)
(* The JavaScript wrapper (src/index.js): it resolves the ref of `uses:` to a *)
(* release of the repository, once for the engine and once for the binary,     *)
(* fetches three executables through the runner's tool cache and spawns one of *)
(* them.  Releases are drafted and published at any time, between the two      *)
(* requests of one resolution too; a job may be cancelled at any step; the tool *)
(* cache stays, and later jobs on the machine use it.                         *)
(*                                                                           *)
(* A tag or ref that looks like a version is the sequence of its numbers, one *)
(* to three of them, and the number of its pre-release suffix, 0 for none.     *)
(***************************************************************************)
EXTENDS Integers, Sequences, FiniteSets

CONSTANTS
  Tags,        \* tags releases may have: [parts, pre]
  Refs,        \* refs jobs use: [parts, pre], no parts for a branch; or Local
  Local,       \* `uses: ./`, the empty ref
  MaxJobs      \* bound: jobs that run on the machine, one after the other

ASSUME ReleaseAssumption ==
  /\ \A t \in Tags : t.parts \in Seq(Nat) /\ Len(t.parts) \in 1 .. 3 /\ t.pre \in Nat
  /\ MaxJobs \in Nat \ {0}

VARIABLES
  github,      \* github[t]: "absent", "draft" or "published"
  cache,       \* cache[k]: what the tool cache has under key k
  jobs,        \* jobs started
  pc, ref,     \* of the job that runs
  tool,        \* the executable it is fetching: a position in Tools
  release,     \* the release resolved for it
  binDir,      \* binDir[i]: the engine executable copied for PATH
  onPath,      \* binDir is on PATH
  spawned,     \* what the job ran
  offered      \* history: the tags that were published when the job began

jobVars == <<jobs, pc, ref, tool, release, binDir, onPath, spawned, offered>>
vars == <<github, cache, jobVars>>

Tools == <<"sccache", "sccache-dist", "sccache-dist-action">>
Engine == 1 .. 2
Binary == 3

(* An executable: the release it is of, and if it was copied to the end.        *)
NoRelease == [parts |-> <<>>, pre |-> 0]
Nothing == [tag |-> NoRelease, whole |-> FALSE]
Source == [tag |-> NoRelease, whole |-> TRUE]        \* built from the checkout

-------------------------------------------------------------------------------
(* Versions.                                                                   *)

(* tagToSemver: missing numbers are 0, and a suffix is dropped.                 *)
TagToSemver(t) == [i \in 1 .. 3 |-> IF i <= Len(t.parts) THEN t.parts[i] ELSE 0]

Precedes(v, w) == \E i \in 1 .. 3 : v[i] < w[i] /\ \A k \in 1 .. i - 1 : v[k] = w[k]

(* Does version v satisfy refToRange of r?  A full version stands for itself,    *)
(* suffix included.                                                            *)
Satisfies(v, r) ==
  /\ r.parts # <<>>
  /\ \A i \in DOMAIN r.parts : v[i] = r.parts[i]
  /\ Len(r.parts) = 3 => r.pre = 0

UsableDrafts == {t \in Tags : github[t] # "absent"}       \* mutant
Usable == {t \in Tags : github[t] = "published"}

Unsorted(S) == S                             \* mutant
Lowest(S) == {t \in S : \A u \in S : ~Precedes(TagToSemver(u), TagToSemver(t))}   \* mutant
Highest(S) == {t \in S : \A u \in S : ~Precedes(TagToSemver(t), TagToSemver(u))}

(* pickRelease: of several with the same version, any may come first.           *)
Picks(r) ==
  IF r \in Usable THEN {r}
  ELSE Highest({t \in Usable : Satisfies(TagToSemver(t), r)})

Latest == {t \in Usable : t.pre = 0}      \* getLatestRelease returns one of them

(* The tool cache's key: the tag's version, not the tag.                        *)
Key(t) == <<tool, TagToSemver(t)>>
Keys == (1 .. Len(Tools)) \X {TagToSemver(t) : t \in Tags}

TypeOK ==
  /\ github \in [Tags -> {"absent", "draft", "published"}]
  /\ \A k \in Keys : cache[k].tag \in Tags \cup {NoRelease}
  /\ jobs \in 0 .. MaxJobs
  /\ pc \in {"idle", "resolve", "latest", "find", "download", "copy", "fallback", "spawn"}
  /\ ref \in Refs \cup {Local}
  /\ tool \in 1 .. Len(Tools)
  /\ release \in Tags \cup {NoRelease}
  /\ pc \in {"find", "download", "copy"} => release \in Tags
  /\ \A i \in Engine : binDir[i].tag \in Tags \cup {NoRelease}
  /\ onPath \in BOOLEAN
  /\ spawned.tag \in Tags \cup {NoRelease}
  /\ offered \subseteq Usable

Init ==
  /\ github = [t \in Tags |-> "absent"]
  /\ cache = [k \in Keys |-> Nothing]
  /\ jobs = 0 /\ pc = "idle" /\ ref = Local /\ tool = 1 /\ release = NoRelease
  /\ binDir = [i \in Engine |-> Nothing] /\ onPath = FALSE /\ spawned = Nothing
  /\ offered = {}

-------------------------------------------------------------------------------
(* run: engine first, unless the ref is empty; its failure is only a warning.    *)

Begin(r) ==
  /\ pc = "idle" /\ jobs < MaxJobs
  /\ jobs' = jobs + 1 /\ ref' = r
  /\ IF r = Local THEN tool' = Binary /\ pc' \in {"resolve", "fallback"}   \* is there go?
                  ELSE tool' = 1 /\ pc' = "resolve"
  /\ release' = NoRelease /\ binDir' = [i \in Engine |-> Nothing]
  /\ onPath' = FALSE /\ spawned' = Nothing /\ offered' = Usable
  /\ UNCHANGED <<github, cache>>

Goes(from, to) == pc = from /\ pc' = to
kept == <<jobs, ref, onPath, spawned, offered>>

(* resolveRelease: the list of releases is awaited and one of it picked; if none     *)
(* fits, the latest release is asked for in a second request.                      *)
Hit(t) ==
  /\ Goes("resolve", "find") /\ ref # Local /\ t \in Picks(ref)
  /\ release' = t
  /\ UNCHANGED <<github, cache, kept, tool, binDir>>

NoHitUnchecked ==                            \* mutant
  /\ Goes("resolve", "find") /\ (ref # Local => Picks(ref) = {})
  /\ UNCHANGED <<github, cache, kept, tool, release, binDir>>
NoHit ==
  /\ Goes("resolve", "latest") /\ (ref # Local => Picks(ref) = {})
  /\ UNCHANGED <<github, cache, kept, tool, release, binDir>>

GotLatest(t) ==
  /\ Goes("latest", "find") /\ t \in Latest
  /\ release' = t
  /\ UNCHANGED <<github, cache, kept, tool, binDir>>

(* The executable for tool is e: an engine's is copied to binDir, and after the  *)
(* second one binDir is put on PATH.                                           *)
PathEarly == TRUE                            \* mutant
PathNow == tool = 2

Obtain(e) ==
  \/ /\ tool \in Engine
     /\ binDir' = [binDir EXCEPT ![tool] = e]
     /\ onPath' = (onPath \/ PathNow)
     /\ tool' = tool + 1
     /\ pc' = IF tool' = Binary THEN "resolve" ELSE "find"
     /\ UNCHANGED spawned
  \/ /\ tool = Binary
     /\ spawned' = e /\ pc' = "spawn"
     /\ UNCHANGED <<binDir, onPath, tool>>

FoundHalf(k) == cache[k] # Nothing           \* mutant
Found(k) == cache[k].whole                   \* the entry is marked complete

FindHit ==
  /\ pc = "find" /\ Found(Key(release))
  /\ Obtain(cache[Key(release)])
  /\ UNCHANGED <<github, cache, jobs, ref, release, offered>>

FindMiss ==
  /\ Goes("find", "download") /\ ~Found(Key(release))
  /\ UNCHANGED <<github, cache, kept, tool, release, binDir>>

(* cacheDir empties the entry, copies, and marks it complete.                   *)
Downloaded ==
  /\ Goes("download", "copy")
  /\ cache' = [cache EXCEPT ![Key(release)] = [tag |-> release, whole |-> FALSE]]
  /\ UNCHANGED <<github, kept, tool, release, binDir>>

Copied ==
  /\ pc = "copy"
  /\ LET whole == [tag |-> release, whole |-> TRUE]
     IN cache' = [cache EXCEPT ![Key(release)] = whole] /\ Obtain(whole)
  /\ UNCHANGED <<github, jobs, ref, release, offered>>

(* The API, the asset or the copying failed.                                    *)
Fails ==
  /\ pc \in {"resolve", "latest", "download", "copy"}
  /\ IF tool \in Engine THEN tool' = Binary /\ pc' = "resolve"
                        ELSE pc' = "fallback" /\ UNCHANGED tool
  /\ UNCHANGED <<github, cache, kept, release, binDir>>

BuildFromSource ==
  /\ Goes("fallback", "spawn")
  /\ spawned' = Source
  /\ UNCHANGED <<github, cache, jobs, ref, tool, release, binDir, onPath, offered>>

Ends ==           \* the binary has exited, or there is none to run, or cancelled
  /\ pc # "idle" /\ pc' = "idle"
  /\ spawned' = Nothing /\ release' = NoRelease /\ offered' = {}
  /\ UNCHANGED <<github, cache, jobs, ref, tool, binDir, onPath>>

Job ==
  \/ NoHit
  \/ \E t \in Tags : Hit(t) \/ GotLatest(t)
  \/ FindHit \/ FindMiss \/ Downloaded \/ Copied \/ Fails \/ BuildFromSource \/ Ends

-------------------------------------------------------------------------------
Draft(t) ==
  /\ github[t] = "absent" /\ github' = [github EXCEPT ![t] = "draft"]
  /\ UNCHANGED <<cache, jobVars>>
Publish(t) ==
  /\ github[t] # "published" /\ github' = [github EXCEPT ![t] = "published"]
  /\ UNCHANGED <<cache, jobVars>>

Finished == jobs = MaxJobs /\ pc = "idle" /\ UNCHANGED vars

Next ==
  \/ \E r \in Refs \cup {Local} : Begin(r)
  \/ Job
  \/ \E t \in Tags : Draft(t) \/ Publish(t)
  \/ Finished

Spec == Init /\ [][Next]_vars

-------------------------------------------------------------------------------
(* An executable that stands for tag t: whole, of t's version, and of t itself if   *)
(* no other tag has that version.                                                *)
OneOfItsVersion(t) == \A u \in Tags : TagToSemver(u) = TagToSemver(t) => u = t
StandsFor(e, t) ==
  /\ e.whole /\ e.tag \in Tags /\ TagToSemver(e.tag) = TagToSemver(t)
  /\ OneOfItsVersion(t) => e.tag = t

(* What a job runs is the source, or stands for the release it resolved, whatever *)
(* other jobs of other refs left in the tool cache, and never half of an          *)
(* executable: a job cancelled while it copies leaves an entry no later job uses. *)
RunsWhatItResolved == pc = "spawn" => spawned = Source \/ StandsFor(spawned, release)

(* PATH gets the engine only with both its executables there, whole and standing   *)
(* for the same release.                                                        *)
EngineWhole == onPath => \E t \in Tags : \A i \in Engine : StandsFor(binDir[i], t)

(* A ref that is a version, or the beginning of one, and releases in its range.     *)
ByVersion == ref # Local /\ ref.parts # <<>> /\ ref.pre = 0
InRange(t) == \A i \in DOMAIN ref.parts : TagToSemver(t)[i] = ref.parts[i]

(* e is what the ref names, or is of the range and no older than t, if t is of it.   *)
NoOlder(e, t) ==
  InRange(t) =>
    \/ ref \in Usable /\ StandsFor(e, ref)
    \/ InRange(e.tag) /\ ~Precedes(TagToSemver(e.tag), TagToSemver(t))

(* "@v1 -> latest v1.*, @v1.0.0 -> exactly v1.0.0": what a job runs is the tag it     *)
(* names if that was published when the job began, else of the range and no older    *)
(* than anything of the range that was published then (another only if the range     *)
(* was empty), and never a draft; whatever is published between and during the two   *)
(* requests, and whatever jobs of other refs, or of older days, left in the cache.   *)
UpToDate ==
  pc = "spawn" /\ spawned # Source =>
    /\ spawned.tag \in Tags /\ github[spawned.tag] = "published"
    /\ ByVersion => /\ ref \in offered => StandsFor(spawned, ref)
                    /\ \A t \in offered : NoOlder(spawned, t)

(* The engine's release is resolved first and the binary's by requests of its own:  *)
(* the binary may be of a newer release than the engine on PATH, but not of an older. *)
EngineNotNewer ==
  pc = "spawn" /\ spawned # Source /\ onPath /\ ByVersion => NoOlder(spawned, binDir[1].tag)

(* index.js: pre-releases are excluded, unless the ref names one.                 *)
PrereleasesExcluded ==
  pc = "spawn" /\ spawned # Source /\ ref # Local /\ ref.pre = 0 => spawned.tag.pre = 0
===============================================================================
