---------------------------- MODULE FilterProofs ----------------------------
(***************************************************************************)
(* Facts about the Ignore-Rule Engine of Filter.tla that hold for every    *)
(* path, every rule list and every vocabulary of pieces, not only for the  *)
(* paths MCFilter enumerates.  They are about is_ignored_by_git and         *)
(* is_build_dir themselves; how get_gitignore_patterns and the filter loop *)
(* feed them (SelectSeq, FlattenSeq) is left to TLC.                        *)
(***************************************************************************)
EXTENDS Filter, SequenceTheorems, TLAPS

-----------------------------------------------------------------------------
(* Lemmas on sequences.                                                    *)

(* The middle part of a \o pat \o b starts right after a.                  *)
LEMMA InfixAt ==
  ASSUME NEW S, NEW a \in Seq(S), NEW pat \in Seq(S), NEW b \in Seq(S)
  PROVE  SubSeq(a \o pat \o b, Len(a) + 1, Len(a) + Len(pat)) = pat
<1> DEFINE s == a \o pat \o b
<1>1. s \in Seq(S) /\ Len(s) = Len(a) + Len(pat) + Len(b)
  BY ConcatProperties
<1>2. /\ SubSeq(s, Len(a) + 1, Len(a) + Len(pat)) \in Seq(S)
      /\ Len(SubSeq(s, Len(a) + 1, Len(a) + Len(pat))) = Len(pat)
  BY <1>1, SubSeqProperties
<1>3. \A i \in 1..Len(pat) : SubSeq(s, Len(a) + 1, Len(a) + Len(pat))[i] = pat[i]
  BY <1>1, ConcatProperties, SubSeqProperties
<1>. QED BY <1>2, <1>3, SeqEqual

(* pat in a + pat + b                                                      *)
LEMMA InStrInfix ==
  ASSUME NEW S, NEW a \in Seq(S), NEW pat \in Seq(S), NEW b \in Seq(S)
  PROVE  InStr(a \o pat \o b, pat)
<1>1. Len(a \o pat \o b) = Len(a) + Len(pat) + Len(b)
  BY ConcatProperties
<1>2. Len(a) \in 0..Len(a \o pat \o b) - Len(pat)
  BY <1>1
<1>. QED BY <1>2, InfixAt DEF InStr

(* The pieces lower() can produce from pieces of S.                        *)
Lowered(S) == S \cup {LowerPiece[x] : x \in DOMAIN LowerPiece}

LEMMA LowerType ==
  ASSUME NEW S, NEW s \in Seq(S)
  PROVE  LowerStr(s) \in Seq(Lowered(S)) /\ Len(LowerStr(s)) = Len(s)
<1>1. \A i \in 1..Len(s) : LowerStr(s)[i] \in Lowered(S)
  <2> SUFFICES ASSUME NEW i \in 1..Len(s) PROVE LowerStr(s)[i] \in Lowered(S)
    OBVIOUS
  <2>1. LowerStr(s)[i] = IF s[i] \in DOMAIN LowerPiece THEN LowerPiece[s[i]]
                                                      ELSE s[i]
    BY DEF LowerStr
  <2>2. CASE s[i] \in DOMAIN LowerPiece
    BY <2>1, <2>2, Zenon DEF Lowered
  <2>3. CASE s[i] \notin DOMAIN LowerPiece
    BY <2>1, <2>3 DEF Lowered
  <2>. QED BY <2>2, <2>3
<1>2. DOMAIN s = 1..Len(s)
  OBVIOUS
<1>3. LowerStr(s) \in [1..Len(s) -> Lowered(S)]
  <2>1. LowerStr(s) = [i \in 1..Len(s) |-> LowerStr(s)[i]]
    BY <1>2 DEF LowerStr
  <2>. QED BY <1>1, <2>1, Zenon
<1>. QED BY <1>3

(* lower() works piece by piece: (a + b).lower() = a.lower() + b.lower(). *)
LEMMA LowerConcat ==
  ASSUME NEW S, NEW a \in Seq(S), NEW b \in Seq(S)
  PROVE  LowerStr(a \o b) = LowerStr(a) \o LowerStr(b)
<1>1. a \o b \in Seq(S)
  BY ConcatProperties
<1>2. /\ LowerStr(a \o b) \in Seq(Lowered(S))
      /\ LowerStr(a) \o LowerStr(b) \in Seq(Lowered(S))
      /\ Len(LowerStr(a \o b)) = Len(LowerStr(a) \o LowerStr(b))
  <2>1. LowerStr(a \o b) \in Seq(Lowered(S))
        /\ Len(LowerStr(a \o b)) = Len(a) + Len(b)
    BY <1>1, LowerType, ConcatProperties
  <2>2. LowerStr(a) \in Seq(Lowered(S)) /\ Len(LowerStr(a)) = Len(a)
        /\ LowerStr(b) \in Seq(Lowered(S)) /\ Len(LowerStr(b)) = Len(b)
    BY LowerType
  <2>3. LowerStr(a) \o LowerStr(b) \in Seq(Lowered(S))
        /\ Len(LowerStr(a) \o LowerStr(b)) = Len(a) + Len(b)
    <3>1. /\ LowerStr(a) \o LowerStr(b) \in Seq(Lowered(S))
          /\ Len(LowerStr(a) \o LowerStr(b)) = Len(LowerStr(a)) + Len(LowerStr(b))
      BY <2>2, ConcatProperties, Zenon
    <3>. QED BY <2>2, <3>1
  <2>. QED BY <2>1, <2>3
<1>3. \A i \in 1..Len(a \o b) :
        LowerStr(a \o b)[i] = (LowerStr(a) \o LowerStr(b))[i]
  <2> SUFFICES ASSUME NEW i \in 1..Len(a \o b)
               PROVE  LowerStr(a \o b)[i] = (LowerStr(a) \o LowerStr(b))[i]
    OBVIOUS
  <2>1. Len(a \o b) = Len(a) + Len(b)
    BY ConcatProperties
  <2>2. LowerStr(a) \in Seq(Lowered(S)) /\ Len(LowerStr(a)) = Len(a)
        /\ LowerStr(b) \in Seq(Lowered(S)) /\ Len(LowerStr(b)) = Len(b)
    BY LowerType
  <2>3. (LowerStr(a) \o LowerStr(b))[i] =
          IF i <= Len(a) THEN LowerStr(a)[i] ELSE LowerStr(b)[i - Len(a)]
    BY <2>1, <2>2, ConcatProperties
  <2>4. (a \o b)[i] = IF i <= Len(a) THEN a[i] ELSE b[i - Len(a)]
    BY <2>1, ConcatProperties
  <2>5. CASE i <= Len(a)
    BY <1>1, <2>3, <2>4, <2>5 DEF LowerStr
  <2>6. CASE ~(i <= Len(a))
    <3>1. i - Len(a) \in DOMAIN b
      BY <2>1, <2>6
    <3>. QED BY <1>1, <2>1, <2>3, <2>4, <2>6, <3>1 DEF LowerStr
  <2>. QED BY <2>5, <2>6
<1>. QED BY <1>1, <1>2, <1>3, LowerType, SeqEqual

-----------------------------------------------------------------------------
(* is_ignored_by_git and is_build_dir.                                     *)

(* The full-path test of is_ignored_by_git, `pattern in str(path)`, makes *)
(* every rule that occurs anywhere in the path string ignore the path,     *)
(* whatever its kind and wherever it occurs: a directory rule "d/" at any  *)
(* depth, but also an anchored rule "/src" in ".../gen/src/..." and a name *)
(* inside a longer name.  The regex match does not narrow this down.       *)
THEOREM RuleInPathIgnores ==
  ASSUME NEW S, NEW a \in Seq(S), NEW b \in Seq(S),
         NEW patterns, NEW k \in DOMAIN patterns,
         patterns[k] \in Seq(S), patterns[k] # <<>>, patterns[k][1] # Hash
  PROVE  IsIgnoredByGit(a \o patterns[k] \o b, patterns)
<1>1. InStr(a \o patterns[k] \o b, patterns[k])
  BY InStrInfix
<1>. QED BY <1>1 DEF IsIgnoredByGit

(* Section 4.1 of the spec: a directory rule "d/" ignores every file that  *)
(* has d as a directory, at any depth below the project root, and at the  *)
(* top of it too (pre = <<>>), where the regex ".*/d/.*" on the relative  *)
(* path finds no "/" before d.                                             *)
THEOREM DirRuleEveryDepth ==
  ASSUME NEW S, Sep \in S, ProjectRoot \in Seq(S),
         NEW pre \in Seq(S), NEW d \in Seq(S), NEW rest \in Seq(S),
         d # <<>>, d[1] # Hash,
         NEW patterns, NEW k \in DOMAIN patterns, patterns[k] = d \o <<Sep>>
  PROVE  IsIgnoredByGit(ProjectRoot \o <<Sep>> \o pre \o d \o <<Sep>> \o rest,
                        patterns)
<1> DEFINE a == ProjectRoot \o <<Sep>> \o pre
<1>1. a \in Seq(S) /\ <<Sep>> \in Seq(S)
  BY ConcatProperties
<1>2. a \o d \o <<Sep>> = a \o (d \o <<Sep>>)
  BY <1>1
<1>3. patterns[k] \in Seq(S) /\ patterns[k] # <<>> /\ patterns[k][1] # Hash
  BY <1>1, ConcatProperties
<1>4. IsIgnoredByGit(a \o patterns[k] \o rest, patterns)
  BY <1>1, <1>3, RuleInPathIgnores
<1>. QED BY <1>2, <1>4

(* Section 8 of the spec: is_build_dir holds for every path in which a     *)
(* name of BUILD_DIR_PATTERNS occurs, in any letter case: lower() is      *)
(* applied piece by piece to both sides of the `in` test.                  *)
THEOREM BuildDirAnyCase ==
  ASSUME NEW S, NEW a \in Seq(S), NEW s \in Seq(S), NEW c \in Seq(S),
         NEW bd \in BuildDirPatterns, LowerStr(s) = LowerStr(bd)
  PROVE  IsBuildDir(a \o s \o c)
<1>1. a \o s \in Seq(S)
  BY ConcatProperties
<1>2. LowerStr(a \o s \o c) = LowerStr(a) \o LowerStr(s) \o LowerStr(c)
  <2>1. LowerStr(a \o s \o c) = LowerStr(a \o s) \o LowerStr(c)
    BY <1>1, LowerConcat
  <2>2. LowerStr(a \o s) = LowerStr(a) \o LowerStr(s)
    BY LowerConcat
  <2>. QED BY <2>1, <2>2
<1>3. /\ LowerStr(a) \in Seq(Lowered(S))
      /\ LowerStr(s) \in Seq(Lowered(S))
      /\ LowerStr(c) \in Seq(Lowered(S))
  BY LowerType
<1>4. InStr(LowerStr(a) \o LowerStr(s) \o LowerStr(c), LowerStr(s))
  <2> DEFINE T == Lowered(S)
  <2>1. \A x, y, z \in Seq(T) : InStr(x \o y \o z, y)
    BY InStrInfix
  <2>. QED BY <1>3, <2>1
<1>5. InStr(LowerStr(a \o s \o c), LowerStr(bd))
  BY <1>2, <1>4
<1>. QED BY <1>5 DEF IsBuildDir

=============================================================================
