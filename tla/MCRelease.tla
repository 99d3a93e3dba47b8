------------------------------- MODULE MCRelease --------------------------------
(* Release for TLC: tags and refs of two major versions.                       *)
EXTENDS Release

Version(parts) == [parts |-> parts, pre |-> 0]
Candidate(parts) == [parts |-> parts, pre |-> 1]

TriedTags ==
  {Version(<<1, 0, 0>>), Candidate(<<1, 1, 0>>), Version(<<1, 1, 0>>), Version(<<2, 0, 0>>)}
WithCandidate == {Version(<<1, 0, 0>>), Candidate(<<1, 1, 0>>)}

TriedRefs == {Version(<<>>), Version(<<1>>), Version(<<1, 1>>), Version(<<1, 0, 0>>)}
MajorRef == {Version(<<1>>)}
===============================================================================
