------------------------------ MODULE AppProofs ------------------------------
(***************************************************************************)
(* What App and Serving promise, for every value of the constants.         *)
(*                                                                         *)
(* The application: whatever the app registered and in whatever order, a   *)
(* command line runs the one command it names, and build returns what it   *)
(* was configured with. AppInv says, stage by stage, which names of the    *)
(* framework's are placed and why one is not.                              *)
(*                                                                         *)
(* The MCP server and what is around it: calls of tools are apart, nothing *)
(* is dropped when the API server ends, the doctor keeps its findings,     *)
(* secrets are whole and plugins are loaded only when enabled. Each side   *)
(* has an inductive invariant of its own; the steps of the others leave it *)
(* alone.                                                                  *)
(***************************************************************************)
EXTENDS App, Serving, FiniteSetTheorems, SequenceTheorems, WellFoundedInduction, TLAPS

\* A set of numbers has a least one.
LEMMA Smallest ==
    ASSUME NEW S \in SUBSET Nat, S # {}
    PROVE  \E i \in S : \A j \in S : i <= j
<1>1. PICK i \in S : \A j \in S : ~(<<j, i>> \in OpToRel(<, Nat))
  BY NatLessThanWellFounded, WFMin
<1>2. \A j \in S : j \in Nat /\ i \in Nat /\ ~(j < i)
  BY <1>1 DEF OpToRel
<1> QED BY <1>2


-----------------------------------------------------------------------------
(* Paths.                                                                  *)

\* A path with a segment more.
LEMMA PushFacts ==
    ASSUME NEW g \in Seq(Segments), NEW l \in Segments
    PROVE  /\ push(g, l) \in Paths /\ Len(push(g, l)) = Len(g) + 1
           /\ Front(push(g, l)) = g /\ leaf(push(g, l)) = l
           /\ \A i \in 1 .. Len(g) : push(g, l)[i] = g[i]
<1> DEFINE p == Append(g, l)
<1>1. p \in Seq(Segments) /\ Len(p) = Len(g) + 1 /\ p # <<>> /\ p[Len(g) + 1] = l
      /\ \A i \in 1 .. Len(g) : p[i] = g[i]
  BY AppendProperties
<1>2. Len(g) \in Nat
  BY LenProperties
<1>3. SubSeq(p, 1, Len(p) - 1) = g
  <2>1. \A i \in 1 .. Len(g) : p[i] \in Segments
    BY <1>1, <1>2, ElementOfSeq
  <2>2. /\ SubSeq(p, 1, Len(g)) \in Seq(Segments) /\ Len(SubSeq(p, 1, Len(g))) = Len(g)
        /\ \A i \in 1 .. Len(g) : SubSeq(p, 1, Len(g))[i] = p[i]
    BY <1>2, <2>1, SubSeqProperties, Z3
  <2>3. SubSeq(p, 1, Len(g)) = g
    BY <1>1, <1>2, <2>2, SeqEqual
  <2> QED BY <1>1, <1>2, <2>3
<1> QED BY <1>1, <1>2, <1>3 DEF push, Front, leaf, Paths

\* A path is its parent with its leaf.
LEMMA PathFacts ==
    ASSUME NEW p \in Paths
    PROVE  /\ p \in Seq(Segments) /\ Len(p) \in Nat /\ Len(p) >= 1
           /\ Front(p) \in Seq(Segments) /\ Len(Front(p)) = Len(p) - 1
           /\ leaf(p) \in Segments /\ leaf(p) = p[Len(p)]
           /\ \A i \in 1 .. Len(p) - 1 : Front(p)[i] = p[i]
           /\ p = push(Front(p), leaf(p))
<1>1. p \in Seq(Segments) /\ p # <<>>
  BY DEF Paths
<1>2. Len(p) \in Nat /\ Len(p) >= 1
  BY <1>1, EmptySeq
<1>3. \A i \in 1 .. Len(p) : p[i] \in Segments
  BY <1>1, ElementOfSeq
<1>4. /\ Front(p) \in Seq(Segments) /\ Len(Front(p)) = Len(p) - 1
      /\ \A i \in 1 .. Len(p) - 1 : Front(p)[i] = p[i]
  <2> DEFINE n == Len(p) - 1
  <2>1. n \in Nat /\ \A i \in 1 .. n : p[i] \in Segments
    BY <1>2, <1>3
  <2> HIDE DEF n
  <2>2. /\ SubSeq(p, 1, n) \in Seq(Segments) /\ Len(SubSeq(p, 1, n)) = n
        /\ \A i \in 1 .. n : SubSeq(p, 1, n)[i] = p[i]
    BY <2>1, SubSeqProperties, Z3
  <2> QED BY <2>2 DEF Front, n
<1>5. leaf(p) = p[Len(p)] /\ leaf(p) \in Segments
  BY <1>1, <1>2, <1>3 DEF leaf
<1>6. p = push(Front(p), leaf(p))
  <2> DEFINE s == push(Front(p), leaf(p))
  <2>0. /\ s \in Paths /\ Len(s) = Len(Front(p)) + 1
        /\ \A i \in 1 .. Len(Front(p)) : s[i] = Front(p)[i]
    BY <1>4, <1>5, PushFacts
  <2>1. /\ s \in Seq(Segments) /\ Len(s) = Len(p)
        /\ \A i \in 1 .. Len(p) - 1 : s[i] = p[i]
    BY <1>2, <1>4, <2>0 DEF Paths
  <2>2. s[Len(p)] = p[Len(p)]
    BY <1>2, <1>4, <1>5, AppendProperties DEF push
  <2> HIDE DEF s
  <2>3. p = s
    BY <1>1, <1>2, <2>1, <2>2, SeqEqual
  <2> QED BY <2>3 DEF s
<1> QED BY <1>1, <1>2, <1>4, <1>5, <1>6

\* Being below, segment by segment.
LEMMA BelowFacts ==
    ASSUME NEW p \in Seq(Segments), NEW q \in Seq(Segments)
    PROVE  Below(p, q) <=> Len(p) < Len(q) /\ \A i \in 1 .. Len(p) : q[i] = p[i]
<1>1. Len(p) \in Nat /\ Len(q) \in Nat
  BY LenProperties
<1>2. ASSUME Len(p) < Len(q)
      PROVE  SubSeq(q, 1, Len(p)) = p <=> \A i \in 1 .. Len(p) : q[i] = p[i]
  <2>1. \A i \in 1 .. Len(p) : q[i] \in Segments
    BY <1>1, <1>2, ElementOfSeq
  <2>2. /\ SubSeq(q, 1, Len(p)) \in Seq(Segments) /\ Len(SubSeq(q, 1, Len(p))) = Len(p)
        /\ \A i \in 1 .. Len(p) : SubSeq(q, 1, Len(p))[i] = q[i]
    BY <1>1, <2>1, SubSeqProperties, Z3
  <2>3. (\A i \in 1 .. Len(p) : q[i] = p[i]) => SubSeq(q, 1, Len(p)) = p
    BY <1>1, <2>2, SeqEqual
  <2> QED BY <1>1, <2>2, <2>3
<1> QED BY <1>1, <1>2 DEF Below

\* What is above a path: the paths it is below.
LEMMA AncestorsFacts ==
    ASSUME NEW p \in Seq(Segments), NEW q
    PROVE  q \in Ancestors(p) <=> q \in Paths /\ Below(q, p)
<1>1. Len(p) \in Nat
  BY LenProperties
<1>2. ASSUME NEW n \in 1 .. Len(p) - 1
      PROVE  SubSeq(p, 1, n) \in Paths /\ Below(SubSeq(p, 1, n), p)
  <2>1. \A i \in 1 .. n : p[i] \in Segments
    BY <1>1, ElementOfSeq
  <2>2. SubSeq(p, 1, n) \in Seq(Segments) /\ Len(SubSeq(p, 1, n)) = n
    BY <1>1, <2>1, SubSeqProperties, Z3
  <2>3. SubSeq(p, 1, n) # <<>>
    BY <2>2, EmptySeq
  <2> QED BY <1>1, <2>2, <2>3 DEF Paths, Below
<1>3. ASSUME q \in Paths, Below(q, p)
      PROVE  \E n \in 1 .. Len(p) - 1 : q = SubSeq(p, 1, n)
  <2>1. Len(q) \in 1 .. Len(p) - 1
    BY <1>1, <1>3, PathFacts DEF Below
  <2> QED BY <1>3, <2>1 DEF Below
<1> QED BY <1>2, <1>3 DEF Ancestors

\* Being below is transitive.
LEMMA BelowTransitive ==
    ASSUME NEW p \in Seq(Segments), NEW q \in Seq(Segments), NEW s \in Seq(Segments),
           Below(p, q), Below(q, s)
    PROVE  Below(p, s)
<1>1. Len(p) \in Nat /\ Len(q) \in Nat /\ Len(s) \in Nat
  BY LenProperties
<1> QED BY <1>1, BelowFacts

\* What is above a path with a segment more is above the path or the path.
LEMMA BelowPush ==
    ASSUME NEW g \in Seq(Segments), NEW l \in Segments, NEW p \in Seq(Segments)
    PROVE  Below(p, push(g, l)) <=> p = g \/ Below(p, g)
<1>1. Len(p) \in Nat /\ Len(g) \in Nat
  BY LenProperties
<1>2. push(g, l) \in Seq(Segments) /\ Len(push(g, l)) = Len(g) + 1
      /\ \A i \in 1 .. Len(g) : push(g, l)[i] = g[i]
  BY PushFacts DEF Paths
<1>3. Below(p, push(g, l)) <=> Len(p) <= Len(g) /\ \A i \in 1 .. Len(p) : g[i] = p[i]
  BY <1>1, <1>2, BelowFacts
<1>4. Len(p) = Len(g) /\ (\A i \in 1 .. Len(p) : g[i] = p[i]) => p = g
  BY <1>1, SeqEqual
<1> QED BY <1>1, <1>3, <1>4, BelowFacts

\* The first segment is that of the path above.
LEMMA FirstSegment ==
    ASSUME NEW g \in Seq(Segments), NEW l \in Segments
    PROVE  /\ g = <<>> => push(g, l)[1] = l
           /\ g # <<>> => push(g, l)[1] = g[1]
           /\ \A q \in Seq(Segments) : g # <<>> /\ Below(g, q) => q[1] = g[1]
<1>1. g = <<>> => push(g, l)[1] = l
  BY AppendProperties, EmptySeq DEF push
<1>2. ASSUME g # <<>>
      PROVE  push(g, l)[1] = g[1] /\ \A q \in Seq(Segments) : Below(g, q) => q[1] = g[1]
  <2>1. Len(g) \in Nat /\ Len(g) >= 1 /\ 1 \in 1 .. Len(g)
    BY <1>2, EmptySeq
  <2>2. push(g, l)[1] = g[1]
    BY <2>1, PushFacts
  <2> QED BY <2>1, <2>2, BelowFacts
<1> QED BY <1>1, <1>2

\* What an alias names is a path; an alias of one segment is next to its
\* command.
LEMMA AliasFacts ==
    ASSUME NEW p \in Paths, NEW a \in Paths
    PROVE  /\ qualified_alias_path(p, a) \in Paths
           /\ Len(a) = 1 => /\ a[1] \in Segments /\ Front(p) \o a = push(Front(p), a[1])
                            /\ qualified_alias_path(p, a) = push(Front(p), a[1])
                            /\ Len(qualified_alias_path(p, a)) = Len(p)
           /\ Len(a) # 1 => qualified_alias_path(p, a) = a
<1>1. /\ a \in Seq(Segments) /\ Len(a) \in Nat /\ Len(a) >= 1
      /\ Front(p) \in Seq(Segments) /\ Len(Front(p)) = Len(p) - 1 /\ Len(p) \in Nat
  BY PathFacts
<1>2. ASSUME Len(a) = 1
      PROVE  /\ a[1] \in Segments /\ Front(p) \o a = push(Front(p), a[1])
             /\ push(Front(p), a[1]) \in Paths /\ Len(push(Front(p), a[1])) = Len(p)
  <2>0. 1 \in 1 .. Len(a)
    BY <1>2
  <2>1. a[1] \in Segments
    BY <1>1, <2>0, ElementOfSeq
  <2>2. a = <<a[1]>>
    <3>1. <<a[1]>> \in Seq(Segments) /\ Len(<<a[1]>>) = 1 /\ <<a[1]>>[1] = a[1]
      BY <2>1
    <3> QED BY <1>1, <1>2, <3>1, SeqEqual
  <2>3. Front(p) \o <<a[1]>> = Append(Front(p), a[1])
    BY <1>1, <2>1, AppendIsConcat, Zenon
  <2>4. push(Front(p), a[1]) \in Paths /\ Len(push(Front(p), a[1])) = Len(p)
    BY <1>1, <2>1, PushFacts
  <2>5. Front(p) \o a = push(Front(p), a[1])
    BY <2>2, <2>3 DEF push
  <2> QED BY <2>1, <2>4, <2>5
<1>3. a \in Paths /\ (Len(a) # 1 => Len(a) > 1) /\ (Len(a) = 1 => ~(Len(a) > 1))
  <2> DEFINE n == Len(a)
  <2>1. n \in Nat /\ n >= 1
    BY <1>1
  <2> HIDE DEF n
  <2>2. (n # 1 => n > 1) /\ (n = 1 => ~(n > 1))
    BY <2>1
  <2> QED BY <2>2 DEF n
<1> QED BY <1>2, <1>3 DEF qualified_alias_path

-----------------------------------------------------------------------------
(* The registry.                                                           *)

\* What is registered; of the framework's, only chat declares variables.
CommandSet ==
  {c \in [owner : {"app", "framework"}, aliases : SUBSET Paths, needs : BOOLEAN, hidden : BOOLEAN,
          category : BOOLEAN, env : SUBSET (Variables \cup ChatVariables)] :
     c.owner = "framework" => c.env \subseteq ChatVariables}
RegistrySet ==
  [cmds : UNION {[D -> CommandSet] : D \in SUBSET Paths}, groups : SUBSET Paths,
   completion : Seq(Segments)]

\* The name n means the command at c.
Means(r, c, n) == n = c \/ n \in AliasPaths(c, r.cmds[c])

\* A name means one command and is no group, and nothing is registered below
\* it, but for the command itself below a long alias of its own.
Unambiguous(r) ==
  \A c \in DOMAIN r.cmds : \A n : Means(r, c, n) =>
    /\ \A d \in DOMAIN r.cmds : Means(r, d, n) => d = c
    /\ n \notin r.groups
    /\ \A q \in DOMAIN r.cmds \cup r.groups : Below(n, q) => q = c

\* r with the commands of the paths L, all of them cmd.
WithAt(r, L, cmd) ==
  [r EXCEPT !.cmds = [p \in DOMAIN r.cmds \cup L |-> IF p \in DOMAIN r.cmds THEN r.cmds[p] ELSE cmd]]

\* What a registry holds, entry by entry.
LEMMA RegistryFacts ==
    ASSUME NEW r \in RegistrySet
    PROVE  /\ DOMAIN r.cmds \in SUBSET Paths /\ r.groups \in SUBSET Paths
           /\ \A c \in DOMAIN r.cmds : /\ r.cmds[c] \in CommandSet
                                       /\ AliasPaths(c, r.cmds[c]) \in SUBSET Paths
<1>1. PICK D \in SUBSET Paths : r.cmds \in [D -> CommandSet]
  BY DEF RegistrySet
<1>2. ASSUME NEW c \in DOMAIN r.cmds
      PROVE  /\ r.cmds[c] \in CommandSet
             /\ AliasPaths(c, r.cmds[c]) \in SUBSET Paths
  <2>1. c \in Paths /\ r.cmds[c] \in CommandSet
    BY <1>1
  <2>2. \A a \in r.cmds[c].aliases : a \in Paths
    BY <2>1 DEF CommandSet
  <2> QED BY <2>1, <2>2, AliasFacts DEF AliasPaths
<1> QED BY <1>1, <1>2 DEF RegistrySet

\* What WithAt adds and what it leaves alone.
LEMMA PutFacts ==
    ASSUME NEW r \in RegistrySet, NEW L \in SUBSET Paths, NEW cmd \in CommandSet
    PROVE  /\ WithAt(r, L, cmd) \in RegistrySet
           /\ WithAt(r, L, cmd).groups = r.groups /\ WithAt(r, L, cmd).completion = r.completion
           /\ DOMAIN WithAt(r, L, cmd).cmds = DOMAIN r.cmds \cup L
           /\ \A p \in DOMAIN r.cmds : WithAt(r, L, cmd).cmds[p] = r.cmds[p]
           /\ \A p \in L \ DOMAIN r.cmds : WithAt(r, L, cmd).cmds[p] = cmd
<1> DEFINE f == [p \in DOMAIN r.cmds \cup L |-> IF p \in DOMAIN r.cmds THEN r.cmds[p] ELSE cmd]
<1>1. f \in [DOMAIN r.cmds \cup L -> CommandSet] /\ DOMAIN r.cmds \cup L \in SUBSET Paths
  BY RegistryFacts
<1>2. DOMAIN f = DOMAIN r.cmds \cup L
  OBVIOUS
<1>3. \A p \in DOMAIN r.cmds : f[p] = r.cmds[p]
  OBVIOUS
<1>4. \A p \in L \ DOMAIN r.cmds : f[p] = cmd
  OBVIOUS
<1> HIDE DEF f
<1>5. f \in UNION {[D -> CommandSet] : D \in SUBSET Paths}
  BY <1>1
<1>6. r = [cmds |-> r.cmds, groups |-> r.groups, completion |-> r.completion]
      /\ r.groups \in SUBSET Paths /\ r.completion \in Seq(Segments)
  BY DEF RegistrySet
<1>7. [r EXCEPT !.cmds = f] = [cmds |-> f, groups |-> r.groups, completion |-> r.completion]
  BY <1>6
<1>8. [r EXCEPT !.cmds = f] \in RegistrySet
  BY <1>5, <1>6, <1>7 DEF RegistrySet
<1>9. WithAt(r, L, cmd) = [r EXCEPT !.cmds = f]
  BY DEF WithAt, f
<1> QED BY <1>2, <1>3, <1>4, <1>7, <1>8, <1>9

\* register_at, where the path is free.
LEMMA RegisterFacts ==
    ASSUME NEW r \in RegistrySet, NEW path \in Paths, NEW cmd \in CommandSet, path \notin DOMAIN r.cmds
    PROVE  register_at(r, path, cmd) = WithAt(r, {path}, cmd)
<1>1. [p \in DOMAIN r.cmds \cup {path} |-> IF p = path THEN cmd ELSE r.cmds[p]]
      = [p \in DOMAIN r.cmds \cup {path} |-> IF p \in DOMAIN r.cmds THEN r.cmds[p] ELSE cmd]
  OBVIOUS
<1> QED BY <1>1 DEF register_at, WithAt

\* What keeps clear of a name, as register_at and register_group ask.
Clear(r, path) ==
  /\ path \notin DOMAIN r.cmds \cup r.groups
  /\ ~command_ancestor(r, path)
  /\ ~existing_alias_for_path(r, path) /\ ~existing_alias_ancestor(r, path)

\* No name of a command is a path that is clear, or above one.
LEMMA ClearFacts ==
    ASSUME NEW r \in RegistrySet, NEW path \in Paths, Clear(r, path)
    PROVE  \A c \in DOMAIN r.cmds : \A n : Means(r, c, n) => n # path /\ ~Below(n, path)
<1> SUFFICES ASSUME NEW c \in DOMAIN r.cmds, NEW n, Means(r, c, n)
             PROVE  n # path /\ ~Below(n, path)
  OBVIOUS
<1>1. n \in Paths /\ path \in Seq(Segments)
  BY RegistryFacts DEF Means, Paths
<1>2. n \notin Ancestors(path)
  BY DEF Clear, Means, command_ancestor, existing_alias_ancestor, existing_alias_for_path
<1>3. n # path
  BY DEF Clear, Means, existing_alias_for_path
<1> QED BY <1>1, <1>2, <1>3, AncestorsFacts

\* Registering commands under names that are clear keeps names unambiguous.
LEMMA PutKeeps ==
    ASSUME NEW r \in RegistrySet, NEW L \in SUBSET Paths, NEW cmd \in CommandSet, Unambiguous(r),
           \A p \in L : Clear(r, p) /\ ~path_has_descendants(r, p),
           \A p \in L : \A q \in L : ~Below(p, q),
           \A p \in L : \A n \in AliasPaths(p, cmd) :
             ~AliasTaken(r, n) /\ \A q \in L : (n = q \/ n \in AliasPaths(q, cmd) \/ Below(n, q)) => q = p
    PROVE  Unambiguous(WithAt(r, L, cmd))
<1> DEFINE s == WithAt(r, L, cmd)
<1>1. /\ s.groups = r.groups /\ DOMAIN s.cmds = DOMAIN r.cmds \cup L
      /\ \A p \in DOMAIN r.cmds : s.cmds[p] = r.cmds[p]
      /\ \A p \in L : p \notin DOMAIN r.cmds /\ s.cmds[p] = cmd
  <2>1. \A p \in L : p \notin DOMAIN r.cmds
    BY DEF Clear
  <2>2. /\ s.groups = r.groups /\ DOMAIN s.cmds = DOMAIN r.cmds \cup L
        /\ \A p \in DOMAIN r.cmds : s.cmds[p] = r.cmds[p]
        /\ \A p \in L \ DOMAIN r.cmds : s.cmds[p] = cmd
    BY ONLY r \in RegistrySet, L \in SUBSET Paths, cmd \in CommandSet, PutFacts
  <2> HIDE DEF s
  <2> QED BY <2>1, <2>2
<1> HIDE DEF s
<1>2. \A c \in DOMAIN r.cmds : \A n : Means(s, c, n) <=> Means(r, c, n)
  BY <1>1 DEF Means
<1>3. \A c \in L : \A n : Means(s, c, n) <=> n = c \/ n \in AliasPaths(c, cmd)
  BY <1>1 DEF Means
<1> SUFFICES ASSUME NEW c \in DOMAIN s.cmds, NEW n, Means(s, c, n)
             PROVE  /\ \A d \in DOMAIN s.cmds : Means(s, d, n) => d = c
                    /\ n \notin s.groups
                    /\ \A q \in DOMAIN s.cmds \cup s.groups : Below(n, q) => q = c
  BY DEF Unambiguous, s
<1>4. CASE c \in DOMAIN r.cmds
  <2>1. Means(r, c, n)
    BY <1>2, <1>4
  <2>2. \A p \in L : n # p /\ ~Below(n, p)
    BY <1>4, <2>1, ClearFacts
  <2>3. existing_alias_for_path(r, n) \/ n \in DOMAIN r.cmds
    BY <1>4, <2>1 DEF Means, existing_alias_for_path
  <2>4. \A p \in L : n \notin AliasPaths(p, cmd)
    BY <2>3 DEF AliasTaken
  <2>5. \A d \in DOMAIN s.cmds : Means(s, d, n) => d \in DOMAIN r.cmds
    BY <1>1, <1>3, <2>2, <2>4
  <2> QED BY <1>1, <1>2, <1>4, <2>1, <2>2, <2>5 DEF Unambiguous
<1>5. CASE c \in L
  <2>1. n = c \/ n \in AliasPaths(c, cmd)
    BY <1>3, <1>5
  <2>2. n \notin r.groups /\ ~path_has_descendants(r, n)
    BY <1>5, <2>1 DEF Clear, AliasTaken
  <2>3. \A d \in DOMAIN r.cmds : ~Means(r, d, n)
    BY <1>5, <2>1, ClearFacts DEF AliasTaken, Means, existing_alias_for_path
  <2>4. \A d \in L : Means(s, d, n) => d = c
    BY <1>3, <1>5, <2>1
  <2>5. \A q \in L : Below(n, q) => q = c
    BY <1>5, <2>1
  <2> QED BY <1>1, <1>2, <2>2, <2>3, <2>4, <2>5 DEF path_has_descendants
<1> QED BY <1>1, <1>4, <1>5

\* The same of a group.
LEMMA GroupKeeps ==
    ASSUME NEW r \in RegistrySet, NEW path \in Paths, Unambiguous(r),
           register_group_error(r, path) = "none"
    PROVE  /\ register_group(r, path) \in RegistrySet /\ Unambiguous(register_group(r, path))
           /\ register_group(r, path).cmds = r.cmds
           /\ register_group(r, path).groups = r.groups \cup {path}
           /\ register_group(r, path).completion = r.completion
<1> DEFINE s == register_group(r, path)
<1>1. /\ s \in RegistrySet /\ s.cmds = r.cmds /\ s.groups = r.groups \cup {path}
      /\ s.completion = r.completion
  BY DEF register_group, RegistrySet
<1>2. Clear(r, path)
  BY DEF register_group_error, Clear
<1> HIDE DEF s
<1>3. \A c : \A n : Means(s, c, n) <=> Means(r, c, n)
  BY <1>1 DEF Means
<1>4. Unambiguous(s)
  BY <1>1, <1>2, <1>3, ClearFacts DEF Unambiguous
<1> QED BY <1>1, <1>4 DEF s

\* One command, wherever register_at allows it.
LEMMA RegisterKeeps ==
    ASSUME NEW r \in RegistrySet, NEW path \in Paths, NEW cmd \in CommandSet, Unambiguous(r),
           register_at_error(r, path, cmd) = "none"
    PROVE  /\ register_at(r, path, cmd) = WithAt(r, {path}, cmd) /\ path \notin DOMAIN r.cmds
           /\ Unambiguous(register_at(r, path, cmd))
<1>1. /\ Clear(r, path) /\ ~path_has_descendants(r, path) /\ path \notin DOMAIN r.cmds
      /\ \A n \in AliasPaths(path, cmd) : ~AliasTaken(r, n)
  BY DEF register_at_error, Clear
<1>2. ~Below(path, path)
  BY PathFacts DEF Below
<1>3. register_at(r, path, cmd) = WithAt(r, {path}, cmd)
  BY <1>1, RegisterFacts
<1>4. Unambiguous(WithAt(r, {path}, cmd))
  BY <1>1, <1>2, PutKeeps
<1> QED BY <1>1, <1>3, <1>4

\* A new registry.
LEMMA EmptyIsRegistry == EmptyRegistry \in RegistrySet /\ Unambiguous(EmptyRegistry)
<1>1. <<>> \in [{} -> CommandSet] /\ DOMAIN <<>> = {}
  <2>1. <<>> \in Seq(CommandSet) /\ Len(<<>>) = 0
    BY EmptySeq
  <2> QED BY <2>1, LenProperties
<1>2. <<>> \in UNION {[D -> CommandSet] : D \in SUBSET Paths}
  BY <1>1
<1>3. <<>> \in Seq(Segments)
  BY EmptySeq
<1>4. EmptyRegistry \in RegistrySet
  BY <1>2, <1>3 DEF EmptyRegistry, RegistrySet
<1>5. DOMAIN EmptyRegistry.cmds = {}
  BY <1>1 DEF EmptyRegistry
<1> QED BY <1>4, <1>5 DEF Unambiguous

-----------------------------------------------------------------------------
(* The walk over the words of a command line.                              *)

\* The states of the walk over the first m words.
Walked(r, words, m, f) ==
  f = [n \in 0 .. m |-> IF n = 0 THEN Start ELSE WalkStep(r, f[n - 1], words[n])]

\* The walk is a function on the number of words.
LEMMA WalkExists ==
    ASSUME NEW r, NEW words \in Seq(Segments)
    PROVE  \E f : Walked(r, words, Len(words), f)
<1> DEFINE S == {m \in Nat : ~\E f : Walked(r, words, m, f)}
<1>1. ASSUME S # {} PROVE FALSE
  <2>1. PICK m \in S : \A j \in S : m <= j
    BY <1>1, Smallest
  <2>2. m # 0
    <3> DEFINE f == [n \in 0 .. 0 |-> Start]
    <3>1. f = [n \in 0 .. 0 |-> IF n = 0 THEN Start ELSE WalkStep(r, f[n - 1], words[n])]
      OBVIOUS
    <3>2. Walked(r, words, 0, f)
      BY <3>1 DEF Walked
    <3> QED BY <2>1, <3>2
  <2>3. m - 1 \in Nat /\ m - 1 \notin S
    BY <2>1, <2>2
  <2>4. PICK g : Walked(r, words, m - 1, g)
    BY <2>3
  <2> DEFINE f == [n \in 0 .. m |-> IF n = m THEN WalkStep(r, g[m - 1], words[m]) ELSE g[n]]
  <2>5. \A n \in 0 .. m - 1 : g[n] = IF n = 0 THEN Start ELSE WalkStep(r, g[n - 1], words[n])
    BY <2>4 DEF Walked
  <2>6. \A n \in 0 .. m : f[n] = IF n = 0 THEN Start ELSE WalkStep(r, f[n - 1], words[n])
    <3> TAKE n \in 0 .. m
    <3>0. m \in Nat /\ m # 0
      BY <2>1, <2>2
    <3>1. CASE n = m
      <4>1. f[n] = WalkStep(r, g[m - 1], words[m]) /\ f[n - 1] = g[m - 1]
        BY <3>0, <3>1
      <4> QED BY <3>0, <3>1, <4>1
    <3>2. CASE n # m
      <4>1. n \in 0 .. m - 1 /\ (n # 0 => n - 1 \in 0 .. m - 1 /\ n - 1 # m)
        BY <3>0, <3>2
      <4>2. f[n] = g[n] /\ (n # 0 => f[n - 1] = g[n - 1])
        BY <3>0, <3>2, <4>1
      <4> HIDE DEF f
      <4> QED BY <2>5, <4>1, <4>2
    <3> QED BY <3>1, <3>2
  <2>7. f = [n \in 0 .. m |-> f[n]]
    OBVIOUS
  <2> HIDE DEF f
  <2>8. Walked(r, words, m, f)
    BY <2>6, <2>7 DEF Walked
  <2> QED BY <2>1, <2>8
<1>2. Len(words) \in Nat
  BY LenProperties
<1> QED BY <1>1, <1>2

\* The walk, step by step.
LEMMA WalkFacts ==
    ASSUME NEW r, NEW words \in Seq(Segments)
    PROVE  \E f : /\ Walk(r, words) = f[Len(words)] /\ f[0] = Start
                  /\ \A n \in 1 .. Len(words) : f[n] = WalkStep(r, f[n - 1], words[n])
<1> DEFINE f == CHOOSE g : Walked(r, words, Len(words), g)
<1>1. Walked(r, words, Len(words), f)
  BY WalkExists
<1>2. Walk(r, words) = f[Len(words)]
  BY DEF Walk, Walked
<1>3. Len(words) \in Nat
  BY LenProperties
<1> HIDE DEF f
<1>4. \A n \in 0 .. Len(words) : f[n] = IF n = 0 THEN Start ELSE WalkStep(r, f[n - 1], words[n])
  BY <1>1 DEF Walked
<1>5. f[0] = Start
  BY <1>3, <1>4
<1>6. \A n \in 1 .. Len(words) : f[n] = WalkStep(r, f[n - 1], words[n])
  BY <1>3, <1>4
<1> QED BY <1>2, <1>5, <1>6

\* The first words, and one more.
LEMMA WordsFacts ==
    ASSUME NEW words \in Seq(Segments), NEW n \in 1 .. Len(words)
    PROVE  /\ SubSeq(words, 1, n - 1) \in Seq(Segments) /\ words[n] \in Segments
           /\ Len(SubSeq(words, 1, n - 1)) = n - 1
           /\ SubSeq(words, 1, n) = push(SubSeq(words, 1, n - 1), words[n])
<1>1. Len(words) \in Nat /\ n \in Nat /\ n >= 1 /\ n <= Len(words)
  BY LenProperties
<1>2. \A i \in 1 .. n : words[i] \in Segments
  BY <1>1, ElementOfSeq
<1> DEFINE m == n - 1
<1>3. m \in Nat /\ (\A i \in 1 .. m : words[i] \in Segments) /\ n = m + 1
  BY <1>1, <1>2
<1> HIDE DEF m
<1>4. /\ SubSeq(words, 1, m) \in Seq(Segments) /\ Len(SubSeq(words, 1, m)) = m
      /\ \A i \in 1 .. m : SubSeq(words, 1, m)[i] = words[i]
  BY <1>3, SubSeqProperties, Z3
<1>5. /\ SubSeq(words, 1, n) \in Seq(Segments) /\ Len(SubSeq(words, 1, n)) = n
      /\ \A i \in 1 .. n : SubSeq(words, 1, n)[i] = words[i]
  BY <1>1, <1>2, SubSeqProperties, Z3
<1> DEFINE a == SubSeq(words, 1, m)
           b == SubSeq(words, 1, n)
<1> HIDE DEF a, b
<1>6. b = push(a, words[n])
  <2>0. /\ a \in Seq(Segments) /\ words[n] \in Segments
        /\ Len(a) = m /\ \A i \in 1 .. m : a[i] = words[i]
    BY <1>1, <1>2, <1>4 DEF a
  <2>1. /\ push(a, words[n]) \in Seq(Segments) /\ Len(push(a, words[n])) = n
        /\ \A i \in 1 .. m : push(a, words[n])[i] = words[i]
    <3>1. /\ push(a, words[n]) \in Paths /\ Len(push(a, words[n])) = Len(a) + 1
          /\ \A i \in 1 .. Len(a) : push(a, words[n])[i] = a[i]
      BY <2>0, PushFacts
    <3>2. push(a, words[n]) \in Seq(Segments)
      BY <3>1 DEF Paths
    <3> QED BY <1>3, <2>0, <3>1, <3>2
  <2>2. push(a, words[n])[n] = words[n]
    BY <1>3, <2>0, AppendProperties DEF push
  <2>3. \A i \in 1 .. n : push(a, words[n])[i] = b[i]
    BY <1>3, <1>5, <2>1, <2>2 DEF b
  <2> QED BY <1>5, <2>1, <2>3, SeqEqual DEF b
<1> QED BY <1>2, <1>3, <1>4, <1>6 DEF a, b, m

\* A node of the tree is a command or has something below it, not both.
LEMMA NodeFacts ==
    ASSUME NEW r \in RegistrySet, Unambiguous(r), NEW q \in Paths
    PROVE  /\ q \in ClapNodes(r) <=> q \in DOMAIN r.cmds \/ IsGroup(r, q)
           /\ q \in DOMAIN r.cmds => ~IsGroup(r, q) /\ q \notin r.groups
<1>1. DOMAIN r.cmds \in SUBSET Paths /\ r.groups \in SUBSET Paths
  BY RegistryFacts
<1>2. \A p \in DOMAIN r.cmds \cup r.groups : p \in Seq(Segments)
  BY <1>1, PathFacts
<1>3. IsGroup(r, q) <=> \E p \in DOMAIN r.cmds \cup r.groups : q \in Ancestors(p)
  BY <1>2, AncestorsFacts DEF IsGroup, path_has_descendants
<1>4. ASSUME q \in DOMAIN r.cmds
      PROVE  ~IsGroup(r, q) /\ q \notin r.groups
  <2>1. Means(r, q, q)
    BY DEF Means
  <2>2. ~Below(q, q)
    BY PathFacts DEF Below
  <2> QED BY <1>4, <2>1, <2>2 DEF Unambiguous, IsGroup, path_has_descendants
<1> QED BY <1>3, <1>4 DEF ClapNodes

\* What a word selects: the node it names, or the command it is an alias of.
LEMMA SelectedFacts ==
    ASSUME NEW r \in RegistrySet, Unambiguous(r), NEW at \in Seq(Segments), NEW word \in Segments,
           NEW q \in Selected(r, at, word)
    PROVE  /\ q \in Paths /\ q \in ClapNodes(r) /\ Front(q) = at
           /\ \/ q = push(at, word)
              \/ /\ q \in DOMAIN r.cmds /\ push(at, word) \in AliasPaths(q, r.cmds[q])
                 /\ Len(push(at, word)) = Len(q)
<1>1. q \in ClapNodes(r) /\ Front(q) = at /\ word \in WordsFor(r, q)
  BY DEF Selected
<1>2. q \in Paths
  <2>1. DOMAIN r.cmds \in SUBSET Paths /\ r.groups \in SUBSET Paths
    BY RegistryFacts
  <2>2. \A p \in DOMAIN r.cmds \cup r.groups : p \in Seq(Segments)
    BY <2>1, PathFacts
  <2>3. \A p \in DOMAIN r.cmds \cup r.groups : Ancestors(p) \subseteq Paths
    BY <2>2, AncestorsFacts
  <2> QED BY <1>1, <2>1, <2>3 DEF ClapNodes
<1>3. CASE word = leaf(q)
  BY <1>1, <1>2, <1>3, PathFacts
<1>4. CASE word # leaf(q)
  <2>1. q \in DOMAIN r.cmds /\ \E a \in r.cmds[q].aliases : Len(a) = 1 /\ word = a[1]
    BY <1>1, <1>4 DEF WordsFor
  <2>2. PICK a \in r.cmds[q].aliases : Len(a) = 1 /\ word = a[1]
    BY <2>1
  <2>3. a \in Paths
    BY <2>1, <2>2, RegistryFacts DEF CommandSet
  <2>4. qualified_alias_path(q, a) = push(at, word) /\ Len(qualified_alias_path(q, a)) = Len(q)
    BY <1>1, <1>2, <2>2, <2>3, AliasFacts
  <2> QED BY <1>1, <1>2, <2>1, <2>2, <2>4 DEF AliasPaths
<1> QED BY <1>1, <1>2, <1>3, <1>4

\* A word selects one node.
LEMMA OneSelected ==
    ASSUME NEW r \in RegistrySet, Unambiguous(r), NEW at \in Seq(Segments), NEW word \in Segments,
           NEW p \in Selected(r, at, word), NEW q \in Selected(r, at, word)
    PROVE  p = q
<1> DEFINE n == push(at, word)
<1>1. /\ p \in Paths /\ p \in ClapNodes(r)
      /\ p = n \/ (p \in DOMAIN r.cmds /\ n \in AliasPaths(p, r.cmds[p]) /\ Len(n) = Len(p))
  BY SelectedFacts
<1>2. /\ q \in Paths /\ q \in ClapNodes(r)
      /\ q = n \/ (q \in DOMAIN r.cmds /\ n \in AliasPaths(q, r.cmds[q]) /\ Len(n) = Len(q))
  BY SelectedFacts
<1> HIDE DEF n
<1>3. ASSUME NEW c \in DOMAIN r.cmds, n \in AliasPaths(c, r.cmds[c]), Len(n) = Len(c), n \in Paths,
             n \in ClapNodes(r)
      PROVE  n = c
  <2>1. Means(r, c, n)
    BY <1>3 DEF Means
  <2>2. CASE n \in DOMAIN r.cmds
    BY <1>3, <2>1, <2>2 DEF Means, Unambiguous
  <2>3. CASE IsGroup(r, n)
    <3>1. PICK d \in DOMAIN r.cmds \cup r.groups : Below(n, d)
      BY <2>3 DEF IsGroup, path_has_descendants
    <3>2. d = c
      BY <1>3, <2>1, <3>1 DEF Unambiguous
    <3>3. Len(n) < Len(c) /\ Len(c) \in Nat
      BY <3>1, <3>2, RegistryFacts, PathFacts DEF Below
    <3> QED BY <1>3, <3>3
  <2> QED BY <1>3, <2>2, <2>3, NodeFacts
<1>4. ASSUME p \in DOMAIN r.cmds, n \in AliasPaths(p, r.cmds[p]),
             q \in DOMAIN r.cmds, n \in AliasPaths(q, r.cmds[q])
      PROVE  p = q
  BY <1>4 DEF Unambiguous, Means
<1> QED BY <1>1, <1>2, <1>3, <1>4

\* The step to a group, and to a command by a word for it.
LEMMA GroupStep ==
    ASSUME NEW r \in RegistrySet, Unambiguous(r), NEW at \in Seq(Segments), NEW word \in Segments,
           IsGroup(r, push(at, word)), NEW k \in Nat
    PROVE  WalkStep(r, [at |-> at, kind |-> "group", more |-> k], word)
           = [at |-> push(at, word), kind |-> "group", more |-> k + 1]
<1> DEFINE q == push(at, word)
<1>1. q \in Paths /\ Len(q) = Len(at) + 1 /\ Front(q) = at /\ leaf(q) = word
  BY PushFacts
<1>2. q \in ClapNodes(r)
  BY <1>1, NodeFacts
<1>3. q \in Selected(r, at, word)
  BY <1>1, <1>2 DEF Selected, WordsFor
<1> HIDE DEF q
<1>4. (CHOOSE x \in Selected(r, at, word) : TRUE) = q
  BY <1>3, OneSelected
<1>5. IsGroup(r, q)
  BY DEF q
<1> QED BY <1>3, <1>4, <1>5 DEF WalkStep, q

\* A word of a command leads from its parent to it.
LEMMA LeafStep ==
    ASSUME NEW r \in RegistrySet, Unambiguous(r), NEW c \in DOMAIN r.cmds, NEW word \in Segments,
           word \in WordsFor(r, c), NEW k \in Nat
    PROVE  WalkStep(r, [at |-> Front(c), kind |-> "group", more |-> k], word)
           = [at |-> c, kind |-> "leaf", more |-> k + 1]
<1>1. c \in Paths /\ Front(c) \in Seq(Segments) /\ Len(c) = Len(Front(c)) + 1
  BY RegistryFacts, PathFacts
<1>2. c \in ClapNodes(r) /\ ~IsGroup(r, c)
  BY <1>1, NodeFacts
<1>3. c \in Selected(r, Front(c), word)
  BY <1>1, <1>2 DEF Selected
<1>4. (CHOOSE x \in Selected(r, Front(c), word) : TRUE) = c
  BY <1>1, <1>3, OneSelected
<1> QED BY <1>2, <1>3, <1>4 DEF WalkStep

\* The walk, word by word, and words that lead through groups.
Follows(f, r, words) ==
  f[0] = Start /\ \A n \in 1 .. Len(words) : f[n] = WalkStep(r, f[n - 1], words[n])
AllGroups(r, words, m) == \A n \in 1 .. m : IsGroup(r, SubSeq(words, 1, n))

\* Through groups the walk follows the words.
LEMMA WalkThroughGroups ==
    ASSUME NEW r \in RegistrySet, Unambiguous(r), NEW words \in Seq(Segments), NEW f, Follows(f, r, words),
           NEW m \in 0 .. Len(words), AllGroups(r, words, m)
    PROVE  f[m] = [at |-> SubSeq(words, 1, m), kind |-> "group", more |-> m]
<1> USE DEF Follows, AllGroups
<1> DEFINE G(n) == [at |-> SubSeq(words, 1, n), kind |-> "group", more |-> n]
           S == {n \in 0 .. m : f[n] # G(n)}
<1>0. Len(words) \in Nat /\ m \in Nat /\ m <= Len(words)
  BY LenProperties
<1>1. ASSUME S # {} PROVE FALSE
  <2>1. S \in SUBSET Nat
    BY <1>0
  <2>2. PICK n \in S : \A j \in S : n <= j
    BY <1>1, <2>1, Smallest
  <2>3. n \in 0 .. m /\ f[n] # G(n)
    BY <2>2
  <2>4. n # 0
    <3>1. SubSeq(words, 1, 0) = <<>>
      BY SubSeqEmpty
    <3> QED BY <2>3, <3>1 DEF Start
  <2>5. n \in 1 .. m /\ n \in 1 .. Len(words) /\ n - 1 \in 0 .. m /\ n - 1 \in Nat /\ n = (n - 1) + 1
    BY <1>0, <2>3, <2>4
  <2>6. n - 1 \notin S
    <3> HIDE DEF S
    <3> QED BY <2>2, <2>5
  <2>7. f[n - 1] = G(n - 1)
    <3> HIDE DEF G
    <3> QED BY <2>5, <2>6
  <2>8. /\ SubSeq(words, 1, n - 1) \in Seq(Segments) /\ words[n] \in Segments
        /\ SubSeq(words, 1, n) = push(SubSeq(words, 1, n - 1), words[n])
    BY <2>5, WordsFacts
  <2>9. WalkStep(r, G(n - 1), words[n]) = G(n)
    <3>1. IsGroup(r, push(SubSeq(words, 1, n - 1), words[n]))
      <4>1. IsGroup(r, SubSeq(words, 1, n))
        BY <2>5
      <4> QED BY <2>8, <4>1
    <3>2. WalkStep(r, G(n - 1), words[n])
          = [at |-> push(SubSeq(words, 1, n - 1), words[n]), kind |-> "group", more |-> (n - 1) + 1]
      BY <2>5, <2>8, <3>1, GroupStep
    <3> QED BY <2>5, <2>8, <3>2
  <2> HIDE DEF G
  <2> QED BY <2>3, <2>5, <2>7, <2>9
<1>2. m \in 0 .. m
  BY <1>0
<1> QED BY <1>1, <1>2

\* The leaf of a command and its aliases lead to it.
LEMMA WalkToCommand ==
    ASSUME NEW r \in RegistrySet, Unambiguous(r), NEW c \in DOMAIN r.cmds, NEW w \in Segments,
           w \in WordsFor(r, c), NEW words, words = push(Front(c), w)
    PROVE  Walk(r, words) = [at |-> c, kind |-> "leaf", more |-> Len(words)]
<1>1. /\ c \in Paths /\ Front(c) \in Seq(Segments) /\ leaf(c) \in Segments
      /\ c = push(Front(c), leaf(c))
  BY RegistryFacts, PathFacts
<1>2. /\ words \in Paths /\ words \in Seq(Segments) /\ Front(words) = Front(c) /\ leaf(words) = w
      /\ Len(words) \in Nat /\ Len(words) >= 1 /\ words[Len(words)] = w
  BY <1>1, PushFacts, PathFacts
<1> DEFINE m == Len(words) - 1
<1>3. m \in Nat /\ m \in 0 .. Len(words) /\ m + 1 = Len(words) /\ Len(words) \in 1 .. Len(words)
  BY <1>2
<1>4. SubSeq(words, 1, m) = Front(c)
  BY <1>2 DEF Front
<1> HIDE DEF m
<1>5. ASSUME NEW n \in 1 .. m
      PROVE  IsGroup(r, SubSeq(words, 1, n))
  <2>1. n \in 1 .. Len(words) - 1
    BY <1>3
  <2>2. SubSeq(words, 1, n) \in Ancestors(words)
    BY <2>1 DEF Ancestors
  <2>3. SubSeq(words, 1, n) \in Paths /\ Below(SubSeq(words, 1, n), words)
    BY <1>2, <2>2, AncestorsFacts
  <2>4. SubSeq(words, 1, n) \in Seq(Segments)
    BY <2>3, PathFacts
  <2>5. Below(SubSeq(words, 1, n), c)
    BY <1>1, <2>3, <2>4, BelowPush
  <2> QED BY <2>5 DEF IsGroup, path_has_descendants
<1>6. PICK f : /\ Walk(r, words) = f[Len(words)] /\ f[0] = Start
               /\ \A n \in 1 .. Len(words) : f[n] = WalkStep(r, f[n - 1], words[n])
  BY <1>2, WalkFacts
<1>7. f[m] = [at |-> Front(c), kind |-> "group", more |-> m]
  <2>1. Follows(f, r, words)
    BY <1>6 DEF Follows
  <2>2. AllGroups(r, words, m)
    BY <1>5 DEF AllGroups
  <2>3. f[m] = [at |-> SubSeq(words, 1, m), kind |-> "group", more |-> m]
    BY <1>2, <1>3, <2>1, <2>2, WalkThroughGroups
  <2> QED BY <1>3, <1>4, <2>3
<1>8. f[Len(words)] = WalkStep(r, f[m], w)
  BY <1>2, <1>3, <1>6
<1> QED BY <1>3, <1>6, <1>7, <1>8, LeafStep

\* A group is reached by its path.
LEMMA WalkToGroup ==
    ASSUME NEW r \in RegistrySet, Unambiguous(r), NEW p \in Paths, IsGroup(r, p)
    PROVE  Walk(r, p) = [at |-> p, kind |-> "group", more |-> Len(p)]
<1>1. p \in Seq(Segments) /\ Len(p) \in Nat /\ Len(p) \in 0 .. Len(p)
  BY PathFacts
<1>0. SubSeq(p, 1, Len(p)) = p
  BY <1>1, SubSeqFull
<1>2. PICK d \in DOMAIN r.cmds \cup r.groups : Below(p, d)
  BY DEF IsGroup, path_has_descendants
<1>3. d \in Seq(Segments)
  BY <1>2, RegistryFacts, PathFacts
<1>4. ASSUME NEW n \in 1 .. Len(p)
      PROVE  IsGroup(r, SubSeq(p, 1, n))
  <2>1. CASE n = Len(p)
    BY <1>0, <2>1
  <2>2. CASE n # Len(p)
    <3>1. n \in 1 .. Len(p) - 1
      BY <1>1, <2>2
    <3>2. SubSeq(p, 1, n) \in Ancestors(p)
      BY <3>1 DEF Ancestors
    <3>3. SubSeq(p, 1, n) \in Paths /\ Below(SubSeq(p, 1, n), p)
      BY <1>1, <3>2, AncestorsFacts
    <3>4. SubSeq(p, 1, n) \in Seq(Segments)
      BY <3>3, PathFacts
    <3>5. Below(SubSeq(p, 1, n), d)
      BY <1>1, <1>2, <1>3, <3>3, <3>4, BelowTransitive
    <3> QED BY <1>2, <3>5 DEF IsGroup, path_has_descendants
  <2> QED BY <2>1, <2>2
<1>5. PICK f : /\ Walk(r, p) = f[Len(p)] /\ f[0] = Start
               /\ \A n \in 1 .. Len(p) : f[n] = WalkStep(r, f[n - 1], p[n])
  BY <1>1, WalkFacts
<1>6. f[Len(p)] = [at |-> SubSeq(p, 1, Len(p)), kind |-> "group", more |-> Len(p)]
  <2>1. Follows(f, r, p)
    BY <1>5 DEF Follows
  <2>2. AllGroups(r, p, Len(p))
    BY <1>4 DEF AllGroups
  <2>3. Len(p) \in 0 .. Len(p)
    BY <1>1
  <2> QED BY <1>1, <2>1, <2>2, <2>3, WalkThroughGroups
<1> QED BY <1>0, <1>5, <1>6

\* Where a walk is after m words: at the group the words name, at a command
\* that the last word it took stands for, or off the tree.
LEMMA WalkEnds ==
    ASSUME NEW r \in RegistrySet, Unambiguous(r), NEW words \in Seq(Segments)
    PROVE  LET s == Walk(r, words)
           IN /\ s.kind \in {"group", "leaf", "implicit", "unknown"}
              /\ s.kind = "leaf" =>
                   /\ s.more \in 1 .. Len(words) /\ s.at \in DOMAIN r.cmds
                   /\ Front(s.at) = SubSeq(words, 1, s.more - 1)
                   /\ words[s.more] \in WordsFor(r, s.at)
              /\ s.kind = "implicit" => s.at = <<"version">> /\ ImplicitVersion(r)
<1> DEFINE G(n) == [at |-> SubSeq(words, 1, n), kind |-> "group", more |-> n]
           L(s, n) == /\ s.kind = "leaf" /\ s.more \in 1 .. n /\ s.at \in DOMAIN r.cmds
                      /\ Front(s.at) = SubSeq(words, 1, s.more - 1)
                      /\ words[s.more] \in WordsFor(r, s.at)
           V(s) == s.kind = "implicit" /\ s.at = <<"version">> /\ ImplicitVersion(r)
           U(s) == s.kind = "unknown"
           I(s, n) == s = G(n) \/ L(s, n) \/ V(s) \/ U(s)
<1>1. PICK f : /\ Walk(r, words) = f[Len(words)] /\ f[0] = Start
               /\ \A n \in 1 .. Len(words) : f[n] = WalkStep(r, f[n - 1], words[n])
  BY WalkFacts
<1>2. Len(words) \in Nat
  BY LenProperties
<1>3. I(f[0], 0)
  <2>1. SubSeq(words, 1, 0) = <<>>
    BY SubSeqEmpty
  <2> QED BY <1>1, <2>1 DEF Start
<1>4. ASSUME NEW n \in 1 .. Len(words), I(f[n - 1], n - 1)
      PROVE  I(f[n], n)
  <2> DEFINE s == f[n - 1]
             p == SubSeq(words, 1, n - 1)
             w == words[n]
  <2>1. f[n] = WalkStep(r, s, w)
    BY <1>1
  <2>2. p \in Seq(Segments) /\ w \in Segments /\ SubSeq(words, 1, n) = push(p, w)
    BY WordsFacts
  <2>3. n \in Nat /\ n >= 1 /\ n - 1 \in Nat /\ (n - 1) + 1 = n /\ n \in 1 .. n
        /\ \A k \in 1 .. n - 1 : k \in 1 .. n
    BY <1>2
  <2>4. CASE s = G(n - 1)
    <3> DEFINE next == Selected(r, p, w)
               q == CHOOSE q \in next : TRUE
    <3>1. s.kind = "group" /\ s.at = p /\ s.more = n - 1
      BY <2>4
    <3>2. CASE next # {}
      <4>1. q \in next
        BY <3>2
      <4>2. f[n] = [at |-> q, kind |-> IF IsGroup(r, q) THEN "group" ELSE "leaf", more |-> n]
        BY <2>1, <2>3, <3>1, <3>2 DEF WalkStep
      <4> HIDE DEF s, q
      <4>3. q \in Paths /\ q \in ClapNodes(r) /\ Front(q) = p /\ w \in WordsFor(r, q)
        BY <2>2, <4>1, SelectedFacts DEF Selected
      <4> HIDE DEF w, p
      <4>4. CASE IsGroup(r, q)
        <5>1. w = leaf(q)
          BY <4>3, <4>4 DEF WordsFor
        <5>2. q = push(p, w)
          BY <4>3, <5>1, PathFacts
        <5> QED BY <2>2, <4>2, <4>4, <5>2
      <4>5. CASE ~IsGroup(r, q)
        <5>1. q \in DOMAIN r.cmds
          BY <4>3, <4>5, NodeFacts
        <5>2. L(f[n], n)
          BY <2>3, <4>2, <4>3, <4>5, <5>1 DEF w, p
        <5> QED BY <5>2
      <4> QED BY <4>4, <4>5
    <3>3. CASE next = {} /\ p = <<>> /\ w = "version" /\ ImplicitVersion(r)
      BY <2>1, <3>1, <3>3 DEF WalkStep
    <3>4. CASE next = {} /\ ~(p = <<>> /\ w = "version" /\ ImplicitVersion(r))
      <4>1. f[n] = [s EXCEPT !.kind = "unknown"]
        BY <2>1, <3>1, <3>4 DEF WalkStep
      <4> QED BY <2>4, <4>1
    <3> QED BY <3>2, <3>3, <3>4
  <2>5. CASE s.kind # "group"
    <3>1. f[n] = s
      BY <2>1, <2>5 DEF WalkStep
    <3>2. L(s, n - 1) \/ V(s) \/ U(s)
      BY <1>4, <2>5
    <3>3. L(s, n - 1) => L(s, n)
      BY <2>3
    <3> QED BY <3>1, <3>2, <3>3
  <2>6. s = G(n - 1) \/ s.kind # "group"
    BY <1>4
  <2> QED BY <2>4, <2>5, <2>6
<1> HIDE DEF I
<1> DEFINE S == {n \in 0 .. Len(words) : ~I(f[n], n)}
<1>5. ASSUME S # {} PROVE FALSE
  <2>0. S \in SUBSET Nat
    BY <1>2
  <2>1. PICK n \in S : \A j \in S : n <= j
    BY <1>5, <2>0, Smallest
  <2>2. n \in 1 .. Len(words) /\ n - 1 \in 0 .. Len(words) /\ n - 1 \notin S
    BY <1>2, <1>3, <2>1
  <2> QED BY <1>4, <2>1, <2>2
<1>6. I(Walk(r, words), Len(words))
  BY <1>1, <1>2, <1>5
<1>7. G(Len(words)).kind = "group"
  OBVIOUS
<1> QED BY <1>6, <1>7 DEF I

-----------------------------------------------------------------------------
(* Dispatch.                                                               *)

ArgvSet == [words : Seq(Segments), flag : {"none", "--help", "--version", "--bad"}]

\* The words name the command at c.
NamedBy(r, c, words) ==
  words = c \/ \E a \in r.cmds[c].aliases : Len(a) = 1 /\ words = Front(c) \o a

\* Such words are the parent's and a word that selects the command.
LEMMA NamedFacts ==
    ASSUME NEW r \in RegistrySet, Unambiguous(r), NEW c \in DOMAIN r.cmds, NEW words
    PROVE  NamedBy(r, c, words) <=> \E w \in WordsFor(r, c) : w \in Segments /\ words = push(Front(c), w)
<1>1. c \in Paths /\ leaf(c) \in Segments /\ c = push(Front(c), leaf(c))
  BY RegistryFacts, PathFacts
<1>2. ~IsGroup(r, c)
  BY <1>1, NodeFacts
<1>3. \A a \in r.cmds[c].aliases : a \in Paths
  BY RegistryFacts DEF CommandSet
<1>4. \A a \in r.cmds[c].aliases :
        Len(a) = 1 => a[1] \in Segments /\ Front(c) \o a = push(Front(c), a[1])
  BY <1>1, <1>3, AliasFacts
<1>5. WordsFor(r, c) = {leaf(c)} \cup {a[1] : a \in {b \in r.cmds[c].aliases : Len(b) = 1}}
  BY <1>2 DEF WordsFor
<1> QED BY <1>1, <1>4, <1>5 DEF NamedBy

\* What the words name runs, when it needs no argument.
LEMMA NamedRuns ==
    ASSUME reg \in RegistrySet, Unambiguous(reg), NEW c \in DOMAIN reg.cmds, NEW argv \in ArgvSet,
           argv.flag = "none", NamedBy(reg, c, argv.words), ~reg.cmds[c].needs,
           ~(leaf(c) = "version" /\ ImplicitVersion(reg))
    PROVE  run_command(argv).ran = c /\ run_command(argv).exit = "command"
<1>1. PICK w \in WordsFor(reg, c) : w \in Segments /\ argv.words = push(Front(c), w)
  BY NamedFacts
<1>2. Walk(reg, argv.words) = [at |-> c, kind |-> "leaf", more |-> Len(argv.words)]
  BY <1>1, WalkToCommand
<1>3. c \in Paths /\ Front(c) \in Seq(Segments)
  BY RegistryFacts, PathFacts
<1>4. argv.words # <<>>
  BY <1>1, <1>3, PushFacts DEF Paths
<1>5. Len(argv.words) \in Nat
  BY LenProperties DEF ArgvSet
<1>6. parse_with_clap(reg, argv) = [kind |-> "Parsed", path |-> c]
  BY <1>2, <1>5 DEF parse_with_clap
<1> QED BY <1>4, <1>6 DEF run_command, should_show_help, resolve

\* And nothing else does.
LEMMA OnlyNamedRuns ==
    ASSUME reg \in RegistrySet, Unambiguous(reg), NEW argv \in ArgvSet
    PROVE  /\ run_command(argv).exit \in {"ok", "usage", "command"}
           /\ argv.flag = "none" /\ run_command(argv).exit = "command" =>
                run_command(argv).ran \in DOMAIN reg.cmds
                /\ NamedBy(reg, run_command(argv).ran, argv.words)
<1> DEFINE o == parse_with_clap(reg, argv)
           s == Walk(reg, argv.words)
           words == argv.words
<1>1. run_command(argv).exit \in {"ok", "usage", "command"}
  BY DEF run_command
<1>2. ASSUME argv.flag = "none", run_command(argv).exit = "command"
      PROVE  run_command(argv).ran \in DOMAIN reg.cmds
             /\ NamedBy(reg, run_command(argv).ran, argv.words)
  <2>1. /\ o.kind = "Parsed" /\ o.path \in DOMAIN reg.cmds /\ run_command(argv).ran = o.path
        /\ ~(leaf(o.path) = "version" /\ ImplicitVersion(reg))
    BY <1>2 DEF run_command, resolve
  <2>2. words \in Seq(Segments) /\ Len(words) \in Nat
    BY LenProperties DEF ArgvSet
  <2>3. /\ s.kind \in {"group", "leaf", "implicit", "unknown"}
        /\ s.kind = "leaf" =>
             /\ s.more \in 1 .. Len(words) /\ s.at \in DOMAIN reg.cmds
             /\ Front(s.at) = SubSeq(words, 1, s.more - 1)
             /\ words[s.more] \in WordsFor(reg, s.at)
        /\ s.kind = "implicit" => s.at = <<"version">> /\ ImplicitVersion(reg)
    BY <2>2, WalkEnds
  <2> HIDE DEF s
  <2>4. s.kind \in {"implicit", "leaf"} /\ o.path = s.at
        /\ (s.kind = "leaf" => ~(s.more < Len(words)))
    BY <1>2, <2>1, <2>3 DEF parse_with_clap, s
  <2>5. leaf(<<"version">>) = "version"
    BY DEF leaf
  <2>6. s.kind = "leaf" /\ s.more = Len(words)
    BY <2>1, <2>2, <2>3, <2>4, <2>5
  <2>7. words[Len(words)] \in Segments /\ Len(words) \in 1 .. Len(words)
        /\ SubSeq(words, 1, Len(words)) = push(Front(s.at), words[Len(words)])
    BY <2>2, <2>3, <2>6, WordsFacts
  <2>8. words = push(Front(s.at), words[Len(words)])
    BY <2>2, <2>7, SubSeqFull
  <2> QED BY <2>1, <2>3, <2>4, <2>6, <2>7, <2>8, NamedFacts
<1> QED BY <1>1, <1>2

-----------------------------------------------------------------------------
(* The steps of build.                                                     *)

\* The order of the stages.
LEMMA NextStages ==
    /\ NextStage("resolve") = "checks" /\ NextStage("checks") = "chat"
    /\ NextStage("chat") = "auth" /\ NextStage("auth") = "config"
    /\ NextStage("config") = "telemetry" /\ NextStage("telemetry") = "namespace"
    /\ NextStage("namespace") = "spec" /\ NextStage("spec") = "doctor"
    /\ NextStage("doctor") = "self" /\ NextStage("self") = "completion"
    /\ NextStage("completion") = "mcp_serve" /\ NextStage("mcp_serve") = "mcp_install"
    /\ NextStage("mcp_install") = "clap" /\ NextStage("clap") = "built"
<1>1. Len(Stages) = 14
  BY DEF Stages
<1>2. /\ Stages[1] = "resolve" /\ Stages[2] = "checks" /\ Stages[3] = "chat" /\ Stages[4] = "auth"
      /\ Stages[5] = "config" /\ Stages[6] = "telemetry" /\ Stages[7] = "namespace"
      /\ Stages[8] = "spec" /\ Stages[9] = "doctor" /\ Stages[10] = "self"
      /\ Stages[11] = "completion" /\ Stages[12] = "mcp_serve" /\ Stages[13] = "mcp_install"
      /\ Stages[14] = "clap"
  BY DEF Stages
<1>3. \A i \in 1 .. 14 : \/ i = 1 \/ i = 2 \/ i = 3 \/ i = 4 \/ i = 5 \/ i = 6 \/ i = 7 \/ i = 8
                         \/ i = 9 \/ i = 10 \/ i = 11 \/ i = 12 \/ i = 13 \/ i = 14
  OBVIOUS
<1>4. \A i, j \in 1 .. 14 : Stages[i] = Stages[j] => i = j
  BY <1>2, <1>3
<1>5. ASSUME NEW k \in 1 .. 13
      PROVE  NextStage(Stages[k]) = Stages[1 + k]
  <2>1. k \in 1 .. 14 /\ 14 \in 1 .. 14 /\ k # 14
    OBVIOUS
  <2>2. Stages[k] # "clap"
    BY <1>2, <1>4, <2>1
  <2>3. (CHOOSE i \in 1 .. Len(Stages) : Stages[i] = Stages[k]) = k
    BY <1>1, <1>4, <2>1
  <2> QED BY <2>2, <2>3 DEF NextStage
<1>6. /\ NextStage(Stages[1]) = Stages[2] /\ NextStage(Stages[2]) = Stages[3]
      /\ NextStage(Stages[3]) = Stages[4] /\ NextStage(Stages[4]) = Stages[5]
      /\ NextStage(Stages[5]) = Stages[6] /\ NextStage(Stages[6]) = Stages[7]
      /\ NextStage(Stages[7]) = Stages[8] /\ NextStage(Stages[8]) = Stages[9]
      /\ NextStage(Stages[9]) = Stages[10] /\ NextStage(Stages[10]) = Stages[11]
      /\ NextStage(Stages[11]) = Stages[12] /\ NextStage(Stages[12]) = Stages[13]
      /\ NextStage(Stages[13]) = Stages[14]
  BY <1>5
<1>7. NextStage("clap") = "built"
  BY DEF NextStage
<1> QED BY <1>2, <1>6, <1>7

AuthLeaves == {"login", "logout", "status", "token"}
ConfigLeaves == {"show", "manifest", "profile", "refresh"}
TelemetryLeaves == {"status", "set", "info", "disable", "enable", "reset"}
SelfLeaves == {"install", "update", "rollback", "uninstall", "status"}
Under(group, leaves) == {push(group, l) : l \in leaves}

\* The framework's segments, and its paths segment by segment.
LEMMA Literals ==
    /\ AuthLeaves \cup ConfigLeaves \cup TelemetryLeaves \cup SelfLeaves
       \cup {"chat", "auth", "config", "telemetry", "spec", "doctor", "self", "completion",
             "completions", "mcp", "serve", "install", "list", "version"} \subseteq Segments
    /\ <<>> \in Seq(Segments)
    /\ <<"chat">> = push(<<>>, "chat") /\ <<"auth">> = push(<<>>, "auth")
    /\ <<"config">> = push(<<>>, "config") /\ <<"telemetry">> = push(<<>>, "telemetry")
    /\ <<"mcp">> = push(<<>>, "mcp") /\ <<"mcp", "serve">> = push(<<"mcp">>, "serve")
    /\ <<"mcp", "install">> = push(<<"mcp">>, "install")
    /\ <<"mcp", "list">> = push(<<"mcp">>, "list")
<1>1. AuthLeaves \cup ConfigLeaves \cup TelemetryLeaves \cup SelfLeaves
      \cup {"chat", "auth", "config", "telemetry", "spec", "doctor", "self", "completion",
            "completions", "mcp", "serve", "install", "list", "version"} \subseteq Segments
  BY AppAssumption DEF FrameworkSegments, AuthLeaves, ConfigLeaves, TelemetryLeaves, SelfLeaves
<1>2. <<>> \in Seq(Segments)
  BY EmptySeq
<1>3. ASSUME NEW d, NEW e
      PROVE  <<e>> = push(<<>>, e) /\ <<d, e>> = push(<<d>>, e)
  BY DEF push
<1> QED BY <1>1, <1>2, <1>3

\* The registry s is r with commands at L more, all of them cmd, and the groups G.
Adds(r, s, L, G, cmd) ==
  /\ s \in RegistrySet
  /\ DOMAIN s.cmds = DOMAIN r.cmds \cup L
  /\ \A p \in DOMAIN r.cmds : s.cmds[p] = r.cmds[p]
  /\ \A p \in L \ DOMAIN r.cmds : s.cmds[p] = cmd
  /\ s.groups = r.groups \cup G

\* WithAt in the terms of Adds.
LEMMA WithAdds ==
    ASSUME NEW r \in RegistrySet, NEW L \in SUBSET Paths, NEW cmd \in CommandSet
    PROVE  Adds(r, WithAt(r, L, cmd), L, {}, cmd) /\ WithAt(r, L, cmd).completion = r.completion
<1>1. /\ WithAt(r, L, cmd) \in RegistrySet
      /\ WithAt(r, L, cmd).groups = r.groups /\ WithAt(r, L, cmd).completion = r.completion
      /\ DOMAIN WithAt(r, L, cmd).cmds = DOMAIN r.cmds \cup L
      /\ \A p \in DOMAIN r.cmds : WithAt(r, L, cmd).cmds[p] = r.cmds[p]
      /\ \A p \in L \ DOMAIN r.cmds : WithAt(r, L, cmd).cmds[p] = cmd
  BY PutFacts
<1>2. r.groups = r.groups \cup {}
  OBVIOUS
<1> QED BY <1>1, <1>2 DEF Adds

\* What the framework registers.
LEMMA BuiltinFacts ==
    /\ Builtin \in CommandSet /\ Categorised \in CommandSet /\ Completion \in CommandSet
    /\ ChatCommand \in CommandSet /\ ChatCommand.owner = "framework" /\ ChatCommand.aliases = {} /\ ChatCommand.env = ChatVariables
    /\ Builtin.owner = "framework" /\ Categorised.owner = "framework"
    /\ Completion.owner = "framework"
    /\ Builtin.aliases = {} /\ Categorised.aliases = {} /\ Completion.aliases = {<<"completions">>}
<1>1. <<"completions">> \in Paths
  <2>1. "completions" \in Segments
    BY Literals
  <2>2. <<"completions">> = push(<<>>, "completions")
    BY DEF push
  <2> QED BY <2>1, <2>2, EmptySeq, PushFacts
<1>2. /\ ChatCommand = [owner |-> "framework", aliases |-> {}, needs |-> FALSE, hidden |-> FALSE,
                         category |-> TRUE, env |-> ChatVariables]
      /\ Builtin = [owner |-> "framework", aliases |-> {}, needs |-> FALSE, hidden |-> FALSE,
                    category |-> FALSE, env |-> {}]
      /\ Categorised = [owner |-> "framework", aliases |-> {}, needs |-> FALSE, hidden |-> FALSE,
                        category |-> TRUE, env |-> {}]
      /\ Completion = [owner |-> "framework", aliases |-> {<<"completions">>}, needs |-> TRUE,
                       hidden |-> FALSE, category |-> FALSE, env |-> {}]
  BY DEF ChatCommand, Builtin, Categorised, Completion, Framework
<1>3. {} \in SUBSET (Variables \cup ChatVariables) /\ ChatVariables \in SUBSET (Variables \cup ChatVariables)
  OBVIOUS
<1>4. Builtin \in CommandSet /\ Categorised \in CommandSet
  BY <1>2, <1>3 DEF CommandSet
<1>5. Completion \in CommandSet /\ ChatCommand \in CommandSet
  BY <1>1, <1>2, <1>3 DEF CommandSet
<1> QED BY <1>2, <1>4, <1>5

\* One command at a free path.
LEMMA PutAdds ==
    ASSUME NEW r \in RegistrySet, Unambiguous(r), NEW path \in Paths, NEW cmd \in CommandSet,
           register_at_error(r, path, cmd) = "none"
    PROVE  /\ Adds(r, register_at(r, path, cmd), {path}, {}, cmd)
           /\ register_at(r, path, cmd).completion = r.completion
           /\ Unambiguous(register_at(r, path, cmd)) /\ path \notin DOMAIN r.cmds
<1>1. /\ register_at(r, path, cmd) = WithAt(r, {path}, cmd) /\ path \notin DOMAIN r.cmds
      /\ Unambiguous(register_at(r, path, cmd))
  BY RegisterKeeps
<1>2. {path} \in SUBSET Paths
  OBVIOUS
<1> QED BY <1>1, <1>2, WithAdds

\* Commands that have the same parent and no aliases, at free paths.
LEMMA LeavesAdd ==
    ASSUME NEW r \in RegistrySet, Unambiguous(r), NEW group \in Seq(Segments), NEW L \in SUBSET Paths,
           \A p \in L : Front(p) = group /\ (p \notin DOMAIN r.cmds => register_at_error(r, p, Builtin) = "none")
    PROVE  /\ Adds(r, WithAt(r, L, Builtin), L, {}, Builtin) /\ Unambiguous(WithAt(r, L, Builtin))
           /\ WithAt(r, L, Builtin).completion = r.completion
<1> DEFINE new == L \ DOMAIN r.cmds
<1>1. Adds(r, WithAt(r, L, Builtin), L, {}, Builtin) /\ WithAt(r, L, Builtin).completion = r.completion
  BY WithAdds, BuiltinFacts
<1>2. WithAt(r, L, Builtin) = WithAt(r, new, Builtin)
  <2>1. DOMAIN r.cmds \cup L = DOMAIN r.cmds \cup new
    OBVIOUS
  <2> QED BY <2>1 DEF WithAt
<1>3. new \in SUBSET Paths /\ \A p \in new : Len(p) = Len(group) + 1
  <2>1. \A p \in new : p \in Paths /\ Front(p) = group
    OBVIOUS
  <2> QED BY <2>1, PathFacts
<1>4. \A p \in new : \A q \in new : ~Below(p, q)
  BY <1>3, LenProperties DEF Below
<1>5. \A p \in new : Clear(r, p) /\ ~path_has_descendants(r, p)
  BY DEF register_at_error, Clear
<1>6. \A p \in new : AliasPaths(p, Builtin) = {}
  BY BuiltinFacts DEF AliasPaths
<1> HIDE DEF new
<1>7. Unambiguous(WithAt(r, new, Builtin))
  BY <1>3, <1>4, <1>5, <1>6, PutKeeps, BuiltinFacts
<1> QED BY <1>1, <1>2, <1>7

\* A path that is free is so beside a new group above it.
LEMMA FreeUnderGroup ==
    ASSUME NEW r \in RegistrySet, NEW path \in Paths, NEW group \in Paths,
           register_at_error(r, path, Builtin) = "none", Front(path) = group
    PROVE  register_at_error(register_group(r, group), path, Builtin) = "none"
<1> DEFINE s == register_group(r, group)
<1>1. s.cmds = r.cmds /\ s.groups = r.groups \cup {group}
  BY DEF register_group, RegistrySet
<1> HIDE DEF s
<1>2. path # group /\ ~Below(path, group)
  BY PathFacts DEF Below
<1>3. AliasPaths(path, Builtin) = {}
  BY BuiltinFacts DEF AliasPaths
<1>4. /\ command_ancestor(s, path) <=> command_ancestor(r, path)
      /\ existing_alias_for_path(s, path) <=> existing_alias_for_path(r, path)
      /\ path_has_descendants(s, path) <=> path_has_descendants(r, path)
  BY <1>1, <1>2 DEF command_ancestor, existing_alias_for_path, path_has_descendants
<1>5. existing_alias_ancestor(s, path) <=> existing_alias_ancestor(r, path)
  BY <1>1 DEF existing_alias_for_path, existing_alias_ancestor
<1>6. register_at_error(s, path, Builtin) = "none"
  BY <1>1, <1>2, <1>3, <1>4, <1>5 DEF register_at_error
<1> QED BY <1>6 DEF s

\* A group and its leaves: all of them, or an error.
LEMMA PutGroupAdds ==
    ASSUME reg \in RegistrySet, Unambiguous(reg), NEW group \in Paths, NEW leaves \in SUBSET Segments,
           NEW s, PutGroup(s, group, leaves)
    PROVE  /\ \/ Err
              \/ /\ stage' = NextStage(s) /\ Unambiguous(reg') /\ reg'.completion = reg.completion
                 /\ Adds(reg, reg', Under(group, leaves), {group}, Builtin)
           /\ (/\ register_group_error(reg, group) = "none"
               /\ \A p \in Under(group, leaves) : register_at_error(reg, p, Builtin) = "none")
              => /\ stage' = NextStage(s) /\ Unambiguous(reg') /\ reg'.completion = reg.completion
                 /\ Adds(reg, reg', Under(group, leaves), {group}, Builtin)
<1> DEFINE paths == Under(group, leaves)
           g == register_group(reg, group)
           bad == \/ register_group_error(reg, group) # "none"
                  \/ \E p \in paths : register_at_error(g, p, Builtin) # "none"
<1>1. /\ bad => Err
      /\ ~bad => Done(s, WithAt(g, paths, Builtin))
  BY DEF PutGroup, WithAt, Under
<1>2. group \in Seq(Segments)
  BY PathFacts
<1>3. paths \in SUBSET Paths /\ \A p \in paths : Front(p) = group
  BY <1>2, PushFacts DEF Under
<1>4. (/\ register_group_error(reg, group) = "none"
       /\ \A p \in paths : register_at_error(reg, p, Builtin) = "none") => ~bad
  BY <1>3, FreeUnderGroup
<1>5. ASSUME ~bad
      PROVE  /\ stage' = NextStage(s) /\ Unambiguous(reg') /\ reg'.completion = reg.completion
             /\ Adds(reg, reg', paths, {group}, Builtin)
  <2>1. /\ g \in RegistrySet /\ Unambiguous(g) /\ g.cmds = reg.cmds
        /\ g.groups = reg.groups \cup {group} /\ g.completion = reg.completion
    BY <1>5, GroupKeeps
  <2>2. stage' = NextStage(s) /\ reg' = WithAt(g, paths, Builtin)
    BY <1>1, <1>5 DEF Done
  <2>3. \A p \in paths : register_at_error(g, p, Builtin) = "none"
    BY <1>5
  <2> HIDE DEF g, paths
  <2>4. /\ Adds(g, WithAt(g, paths, Builtin), paths, {}, Builtin) /\ Unambiguous(WithAt(g, paths, Builtin))
        /\ WithAt(g, paths, Builtin).completion = g.completion
    BY <1>2, <1>3, <2>1, <2>3, LeavesAdd
  <2>5. Adds(reg, WithAt(g, paths, Builtin), paths, {group}, Builtin)
    BY <2>1, <2>4 DEF Adds
  <2> QED BY <2>1, <2>2, <2>4, <2>5
<1> QED BY <1>1, <1>4, <1>5

-----------------------------------------------------------------------------
(* The inductive invariant.                                                *)

\* The stages after each step of build.
AfterMcpInstall == {"clap", "built"}
AfterMcpServe == {"mcp_install", "clap", "built"}
AfterCompletion == {"mcp_serve", "mcp_install", "clap", "built"}
AfterSelf == {"completion", "mcp_serve", "mcp_install", "clap", "built"}
AfterDoctor == {"self"} \cup AfterSelf
AfterSpec == {"doctor", "self"} \cup AfterSelf
AfterTelemetry == {"namespace", "spec", "doctor", "self"} \cup AfterSelf
AfterConfig == {"telemetry"} \cup AfterTelemetry
AfterAuth == {"config", "telemetry"} \cup AfterTelemetry
AfterChat == {"auth", "config", "telemetry"} \cup AfterTelemetry
AfterChecks == {"chat", "auth", "config", "telemetry"} \cup AfterTelemetry

OptSet ==
  [end_user : BOOLEAN, explicit : BOOLEAN, legacy : BOOLEAN, withdrawn : BOOLEAN,
   provider : BOOLEAN, config : {"none", "ok", "broken"}, manifest : BOOLEAN,
   keys : {"plain", "owned", "blank"}, self : {"none", "valid", "invalid"}, completion : BOOLEAN, mcp : BOOLEAN,
   ns : Seq(Segments), checks : BOOLEAN, probe : {"none", "new", "duplicate"}]

BaseInv ==
  /\ reg \in RegistrySet /\ Unambiguous(reg) /\ opts \in OptSet
  /\ stage \in {"building", "refused", "failed", "panicked", "checks"} \cup AfterChecks
  /\ mine \subseteq reg.groups
  /\ sees \in [mcp : SUBSET DOMAIN reg.cmds, completion : SUBSET DOMAIN reg.cmds]

\* What ran is what run_command makes of an argv in the app that was built.
LastInv ==
  \/ last = [argv |-> None, ran |-> <<>>, exit |-> "none"]
  \/ /\ stage = "built" /\ last.argv \in ArgvSet
     /\ last.ran = run_command(last.argv).ran /\ last.exit = run_command(last.argv).exit

\* Until its first registration build finds what the app registered, and no more.
Fresh ==
  (\A c \in DOMAIN reg.cmds : reg.cmds[c].owner = "app") /\ reg.groups = mine

McpNames == {<<"mcp", "serve">>, <<"mcp", "install">>, <<"mcp", "list">>}
FrameworkCommand(p) == p \in DOMAIN reg.cmds /\ reg.cmds[p].owner = "framework"

\* The commands and the groups that the steps so far may have added.
Placed(p) ==
  \/ stage \in AfterChat /\ p = <<"chat">>
  \/ stage \in AfterAuth /\ opts.provider /\ p \in Under(<<"auth">>, AuthLeaves)
  \/ stage \in AfterConfig /\ opts.manifest /\ p \in Under(<<"config">>, ConfigLeaves)
  \/ /\ stage \in AfterTelemetry /\ opts.end_user /\ ~opts.withdrawn
     /\ p \in Under(<<"telemetry">>, TelemetryLeaves)
  \/ stage \in AfterSpec /\ p = push(opts.ns, "spec")
  \/ stage \in AfterDoctor /\ p = push(opts.ns, "doctor")
  \/ /\ stage \in AfterSelf /\ opts.self # "none" /\ opts.end_user
     /\ p \in Under(push(opts.ns, "self"), SelfLeaves)
  \/ stage \in AfterCompletion /\ opts.completion /\ p = push(opts.ns, "completion")
  \/ stage \in AfterMcpServe /\ opts.mcp /\ p = <<"mcp", "serve">>
  \/ stage \in AfterMcpInstall /\ p \in {<<"mcp", "install">>, <<"mcp", "list">>}

PlacedGroup(g) ==
  \/ stage \in AfterAuth /\ opts.provider /\ g = <<"auth">>
  \/ stage \in AfterConfig /\ opts.manifest /\ g = <<"config">>
  \/ stage \in AfterTelemetry /\ opts.end_user /\ ~opts.withdrawn /\ g = <<"telemetry">>
  \/ stage \in AfterSelf /\ opts.self # "none" /\ opts.end_user /\ g = push(opts.ns, "self")
  \/ stage \in AfterMcpServe /\ g = <<"mcp">>

\* What is not the app's is what the steps so far add; the only alias among it
\* is the one of the completion command.
Origins ==
  /\ \A p : FrameworkCommand(p) =>
       /\ Placed(p)
       /\ \/ AliasPaths(p, reg.cmds[p]) = {}
          \/ stage \in AfterCompletion /\ AliasPaths(p, reg.cmds[p]) = {push(opts.ns, "completions")}
  /\ \A g \in reg.groups \ mine : PlacedGroup(g)

\* Without a clash the steps so far added all of it (the doctor command only
\* when there are checks).
Got ==
  ~Clash => \A p : Placed(p) /\ p # push(opts.ns, "doctor") => p \in DOMAIN reg.cmds

\* What the snapshots do not have.
Snapshots ==
  /\ stage \in AfterCompletion /\ opts.completion =>
       /\ reg.completion = push(opts.ns, "completion")
       /\ \A p \in DOMAIN reg.cmds \ sees.completion :
            FrameworkCommand(p) /\ (p = push(opts.ns, "completion") \/ p \in McpNames)
  /\ stage \in AfterMcpServe /\ FrameworkCommand(<<"mcp", "serve">>) =>
       \A p \in DOMAIN reg.cmds \ sees.mcp : FrameworkCommand(p) /\ p \in McpNames

\* The deployment is decided before the first registration.
Deployed == opts.legacy /\ ~opts.explicit => ~opts.end_user
SelfOfAnEndUser == ~opts.end_user => opts.self = "none"

\* The app, or the namespace, has a name that begins with chat or mcp.
Taken ==
  \E p \in AppCmds \cup AppAliases \cup mine \cup ({opts.ns} \ {<<>>}) : p[1] \in {"chat", "mcp"}

FailedForAReason ==
  Clash \/ opts.config = "broken" \/ opts.probe = "duplicate" \/ opts.keys = "owned"
  \/ opts.self = "invalid" \/ opts.ns \in AppCmds \/ VariablesRefused
  \/ (opts.keys = "blank" /\ ~Withdrawn)

AppInv ==
  /\ BaseInv /\ LastInv
  /\ stage \in {"building", "checks", "chat"} => Fresh
  /\ stage \in {"checks"} \cup AfterChecks => Deployed
  /\ stage \in AfterChecks => SelfOfAnEndUser /\ Origins /\ Got /\ Snapshots
  /\ stage = "failed" => FailedForAReason
  /\ stage = "panicked" => Clash /\ Taken

-----------------------------------------------------------------------------
(* The framework's names.                                                  *)

\* The names under a path.
LEMMA UnderFacts ==
    ASSUME NEW g \in Seq(Segments), NEW leaves \in SUBSET Segments
    PROVE  \A p \in Under(g, leaves) : p \in Paths /\ leaf(p) \in leaves /\ Front(p) = g
BY PushFacts DEF Under

\* The framework's paths, their parents and leaves.
LEMMA Shapes ==
    ASSUME opts \in OptSet
    PROVE  /\ opts.ns \in Seq(Segments)
           /\ \A g \in {<<"chat">>, <<"auth">>, <<"config">>, <<"telemetry">>, <<"mcp">>} :
                g \in Paths /\ g \in Seq(Segments) /\ Front(g) = <<>> /\ Len(g) = 1 /\ Ancestors(g) = {}
           /\ leaf(<<"chat">>) = "chat" /\ leaf(<<"auth">>) = "auth" /\ leaf(<<"config">>) = "config"
           /\ leaf(<<"telemetry">>) = "telemetry" /\ leaf(<<"mcp">>) = "mcp"
           /\ \A x \in Segments : /\ push(opts.ns, x) \in Paths /\ push(opts.ns, x) \in Seq(Segments)
                                  /\ leaf(push(opts.ns, x)) = x /\ Front(push(opts.ns, x)) = opts.ns
           /\ \A p \in McpNames : p \in Paths /\ Front(p) = <<"mcp">>
           /\ leaf(<<"mcp", "serve">>) = "serve" /\ leaf(<<"mcp", "install">>) = "install"
           /\ leaf(<<"mcp", "list">>) = "list"
<1>1. opts.ns \in Seq(Segments)
  BY DEF OptSet
<1>2. ASSUME NEW x \in Segments
      PROVE  /\ push(<<>>, x) \in Paths /\ push(<<>>, x) \in Seq(Segments) /\ Front(push(<<>>, x)) = <<>>
             /\ leaf(push(<<>>, x)) = x /\ Len(push(<<>>, x)) = 1 /\ Ancestors(push(<<>>, x)) = {}
  <2>1. /\ push(<<>>, x) \in Paths /\ Front(push(<<>>, x)) = <<>> /\ leaf(push(<<>>, x)) = x
        /\ Len(push(<<>>, x)) = Len(<<>>) + 1
    BY Literals, PushFacts
  <2>2. push(<<>>, x) \in Seq(Segments)
    BY <2>1, PathFacts
  <2>3. Len(push(<<>>, x)) = 1
    BY <2>1, EmptySeq
  <2>4. Ancestors(push(<<>>, x)) = {}
    BY <2>3 DEF Ancestors
  <2> QED BY <2>1, <2>2, <2>3, <2>4
<1>3. ASSUME NEW x \in Segments
      PROVE  /\ push(opts.ns, x) \in Paths /\ push(opts.ns, x) \in Seq(Segments)
             /\ leaf(push(opts.ns, x)) = x /\ Front(push(opts.ns, x)) = opts.ns
  BY <1>1, <1>3, PushFacts, PathFacts
<1>4. /\ "chat" \in Segments /\ "auth" \in Segments /\ "config" \in Segments /\ "telemetry" \in Segments
      /\ "mcp" \in Segments /\ "serve" \in Segments /\ "install" \in Segments /\ "list" \in Segments
  BY Literals
<1>5. /\ \A g \in {<<"chat">>, <<"auth">>, <<"config">>, <<"telemetry">>, <<"mcp">>} :
           g \in Paths /\ g \in Seq(Segments) /\ Front(g) = <<>> /\ Len(g) = 1 /\ Ancestors(g) = {}
      /\ leaf(<<"chat">>) = "chat" /\ leaf(<<"auth">>) = "auth" /\ leaf(<<"config">>) = "config"
      /\ leaf(<<"telemetry">>) = "telemetry" /\ leaf(<<"mcp">>) = "mcp"
  <2>1. /\ <<"chat">> = push(<<>>, "chat") /\ <<"auth">> = push(<<>>, "auth")
        /\ <<"config">> = push(<<>>, "config") /\ <<"telemetry">> = push(<<>>, "telemetry")
        /\ <<"mcp">> = push(<<>>, "mcp")
    BY Literals
  <2>2. /\ \A g \in {<<"chat">>, <<"auth">>, <<"config">>, <<"telemetry">>, <<"mcp">>} :
             \E x \in Segments : g = push(<<>>, x)
    BY <1>4, <2>1, Zenon
  <2>3. /\ leaf(push(<<>>, "chat")) = "chat" /\ leaf(push(<<>>, "auth")) = "auth"
        /\ leaf(push(<<>>, "config")) = "config" /\ leaf(push(<<>>, "telemetry")) = "telemetry"
        /\ leaf(push(<<>>, "mcp")) = "mcp"
    BY <1>2, <1>4
  <2>4. \A g \in {<<"chat">>, <<"auth">>, <<"config">>, <<"telemetry">>, <<"mcp">>} :
          g \in Paths /\ g \in Seq(Segments) /\ Front(g) = <<>> /\ Len(g) = 1 /\ Ancestors(g) = {}
    BY <1>2, <2>2, Zenon
  <2> QED BY <2>1, <2>3, <2>4, Zenon
<1>6. /\ \A p \in McpNames : p \in Paths /\ Front(p) = <<"mcp">>
      /\ leaf(<<"mcp", "serve">>) = "serve" /\ leaf(<<"mcp", "install">>) = "install"
      /\ leaf(<<"mcp", "list">>) = "list"
  <2>1. /\ <<"mcp", "serve">> = push(<<"mcp">>, "serve") /\ <<"mcp", "install">> = push(<<"mcp">>, "install")
        /\ <<"mcp", "list">> = push(<<"mcp">>, "list")
    BY Literals
  <2>2. <<"mcp">> \in Seq(Segments)
    BY <1>5
  <2>3. \A x \in Segments : /\ push(<<"mcp">>, x) \in Paths /\ Front(push(<<"mcp">>, x)) = <<"mcp">>
                            /\ leaf(push(<<"mcp">>, x)) = x
    BY <2>2, PushFacts
  <2> QED BY <1>4, <2>1, <2>3, Zenon DEF McpNames
<1> QED BY <1>1, <1>3, <1>5, <1>6

\* The leaves of the framework's groups and commands.
LEMMA NamesAre ==
    ASSUME opts \in OptSet, NEW f
    PROVE  /\ f \in Wanted <=>
                \/ f \in {<<"chat">>, push(opts.ns, "spec"), <<"mcp", "install">>, <<"mcp", "list">>}
                \/ opts.provider /\ f \in Under(<<"auth">>, AuthLeaves)
                \/ opts.manifest /\ f \in Under(<<"config">>, ConfigLeaves)
                \/ opts.end_user /\ ~opts.withdrawn /\ f \in Under(<<"telemetry">>, TelemetryLeaves)
                \/ opts.self # "none" /\ opts.end_user /\ f \in Under(push(opts.ns, "self"), SelfLeaves)
                \/ opts.completion /\ f = push(opts.ns, "completion")
                \/ opts.mcp /\ f = <<"mcp", "serve">>
           /\ f \in FrameworkNames <=>
                f \in Wanted \/ f \in {push(opts.ns, "completions"), push(opts.ns, "doctor")}
<1>1. f \in FrameworkNames <=>
        f \in Wanted \/ f \in {push(opts.ns, "completions"), push(opts.ns, "doctor")}
  BY DEF FrameworkNames
<1> DEFINE A == Under(<<"auth">>, AuthLeaves)
           C == Under(<<"config">>, ConfigLeaves)
           T == Under(<<"telemetry">>, TelemetryLeaves)
           S == Under(push(opts.ns, "self"), SelfLeaves)
<1>2. Wanted = {<<"chat">>, push(opts.ns, "spec"), <<"mcp", "install">>, <<"mcp", "list">>}
               \cup (IF opts.provider THEN A ELSE {}) \cup (IF opts.manifest THEN C ELSE {})
               \cup (IF opts.end_user /\ ~opts.withdrawn THEN T ELSE {})
               \cup (IF opts.self # "none" /\ opts.end_user THEN S ELSE {})
               \cup (IF opts.completion THEN {push(opts.ns, "completion")} ELSE {})
               \cup (IF opts.mcp THEN {<<"mcp", "serve">>} ELSE {})
  BY DEF Wanted, Under, AuthLeaves, ConfigLeaves, TelemetryLeaves, SelfLeaves
<1> HIDE DEF A, C, T, S
<1>3. opts.provider \in BOOLEAN /\ opts.manifest \in BOOLEAN /\ opts.completion \in BOOLEAN
      /\ opts.mcp \in BOOLEAN /\ opts.end_user \in BOOLEAN /\ opts.withdrawn \in BOOLEAN
  BY DEF OptSet
<1>4. f \in Wanted <=>
        \/ f \in {<<"chat">>, push(opts.ns, "spec"), <<"mcp", "install">>, <<"mcp", "list">>}
        \/ opts.provider /\ f \in A
        \/ opts.manifest /\ f \in C
        \/ opts.end_user /\ ~opts.withdrawn /\ f \in T
        \/ opts.self # "none" /\ opts.end_user /\ f \in S
        \/ opts.completion /\ f = push(opts.ns, "completion")
        \/ opts.mcp /\ f = <<"mcp", "serve">>
  BY <1>2, <1>3
<1> QED BY <1>1, <1>4 DEF A, C, T, S

\* A name of the framework is a path whose leaf is no group of the framework's.
LEMMA NameShape ==
    ASSUME opts \in OptSet, NEW f \in FrameworkNames
    PROVE  /\ f \in Paths /\ f \in Seq(Segments)
           /\ leaf(f) \notin {"auth", "config", "telemetry", "self", "mcp"}
<1> DEFINE Good(p) == p \in Paths /\ leaf(p) \notin {"auth", "config", "telemetry", "self", "mcp"}
<1>1. /\ AuthLeaves \in SUBSET Segments /\ ConfigLeaves \in SUBSET Segments
      /\ TelemetryLeaves \in SUBSET Segments /\ SelfLeaves \in SUBSET Segments
      /\ "spec" \in Segments /\ "doctor" \in Segments /\ "completion" \in Segments
      /\ "completions" \in Segments /\ "self" \in Segments
  BY Literals
<1>2. /\ \A p \in Under(<<"auth">>, AuthLeaves) : p \in Paths /\ leaf(p) \in AuthLeaves
      /\ \A p \in Under(<<"config">>, ConfigLeaves) : p \in Paths /\ leaf(p) \in ConfigLeaves
      /\ \A p \in Under(<<"telemetry">>, TelemetryLeaves) : p \in Paths /\ leaf(p) \in TelemetryLeaves
      /\ \A p \in Under(push(opts.ns, "self"), SelfLeaves) : p \in Paths /\ leaf(p) \in SelfLeaves
  <2>1. <<"auth">> \in Seq(Segments) /\ <<"config">> \in Seq(Segments) /\ <<"telemetry">> \in Seq(Segments)
        /\ push(opts.ns, "self") \in Seq(Segments)
    BY <1>1, Shapes
  <2> QED BY <1>1, <2>1, UnderFacts
<1>3. /\ Good(push(opts.ns, "spec")) /\ Good(push(opts.ns, "doctor")) /\ Good(push(opts.ns, "completion"))
      /\ Good(push(opts.ns, "completions"))
  BY <1>1, Shapes
<1>4. Good(<<"chat">>) /\ Good(<<"mcp", "serve">>) /\ Good(<<"mcp", "install">>) /\ Good(<<"mcp", "list">>)
  BY Shapes DEF McpNames
<1>5. \A p : (\/ p \in Under(<<"auth">>, AuthLeaves) \/ p \in Under(<<"config">>, ConfigLeaves)
              \/ p \in Under(<<"telemetry">>, TelemetryLeaves)
              \/ p \in Under(push(opts.ns, "self"), SelfLeaves)) => Good(p)
  BY <1>2 DEF AuthLeaves, ConfigLeaves, TelemetryLeaves, SelfLeaves
<1> HIDE DEF Good
<1>6. Good(f)
  BY <1>3, <1>4, <1>5, NamesAre
<1>7. f \in Paths
  BY <1>6 DEF Good
<1> QED BY <1>6, <1>7, PathFacts DEF Good

\* What is placed is one of the names.
LEMMA PlacedNames ==
    ASSUME opts \in OptSet
    PROVE  /\ \A p : Placed(p) => p \in FrameworkNames
           /\ \A g : PlacedGroup(g) => g \in {<<"auth">>, <<"config">>, <<"telemetry">>, <<"mcp">>,
                                              push(opts.ns, "self")}
           /\ PlacedGroup(push(opts.ns, "self")) =>
                push(push(opts.ns, "self"), "install") \in FrameworkNames
                \/ push(opts.ns, "self") \in {<<"auth">>, <<"config">>, <<"telemetry">>, <<"mcp">>}
<1>1. \A p : Placed(p) => p \in FrameworkNames
  BY NamesAre DEF Placed
<1>2. push(push(opts.ns, "self"), "install") \in Under(push(opts.ns, "self"), SelfLeaves)
  BY DEF Under, SelfLeaves
<1>3. \A g : PlacedGroup(g) => g \in {<<"auth">>, <<"config">>, <<"telemetry">>, <<"mcp">>,
                                      push(opts.ns, "self")}
  BY DEF PlacedGroup
<1>4. PlacedGroup(push(opts.ns, "self")) =>
        \/ opts.self # "none" /\ opts.end_user
        \/ push(opts.ns, "self") \in {<<"auth">>, <<"config">>, <<"telemetry">>, <<"mcp">>}
  BY DEF PlacedGroup
<1>5. opts.self # "none" /\ opts.end_user => push(push(opts.ns, "self"), "install") \in FrameworkNames
  BY <1>2, NamesAre
<1> QED BY <1>1, <1>3, <1>4, <1>5

\* Where the app kept clear of the framework's names, nothing that is
\* registered is above one, below one, or has one, but for the framework's.
LEMMA NothingInTheWay ==
    ASSUME BaseInv, Origins, ~Clash, NEW f \in FrameworkNames
    PROVE  /\ \A p \in DOMAIN reg.cmds :
                p \notin Ancestors(f) /\ f \notin Ancestors(p) /\ (p = f => FrameworkCommand(f))
           /\ \A c \in DOMAIN reg.cmds : \A a \in AliasPaths(c, reg.cmds[c]) :
                a \notin Ancestors(f) /\ (a = f => f = push(opts.ns, "completions"))
           /\ \A g \in reg.groups : g # f /\ f \notin Ancestors(g)
<1>1. reg \in RegistrySet /\ opts \in OptSet
  BY DEF BaseInv
<1>2. \A c \in DOMAIN reg.cmds : c \in AppCmds \/ FrameworkCommand(c)
  <2>1. \A c \in DOMAIN reg.cmds : reg.cmds[c].owner \in {"app", "framework"}
    BY <1>1, RegistryFacts DEF CommandSet
  <2> QED BY <2>1 DEF AppCmds, FrameworkCommand
<1>3. \A p \in AppCmds \cup AppAliases : p # f /\ p \notin Ancestors(f) /\ f \notin Ancestors(p)
  BY DEF Clash
<1>4. \A g \in FrameworkNames : g \notin Ancestors(f) /\ f \notin Ancestors(g)
  BY DEF Clash
<1>5. \A p : FrameworkCommand(p) => p \in FrameworkNames
  BY <1>1, PlacedNames DEF Origins
<1>6. \A p \in DOMAIN reg.cmds :
        p \notin Ancestors(f) /\ f \notin Ancestors(p) /\ (p = f => FrameworkCommand(f))
  BY <1>2, <1>3, <1>4, <1>5
<1>7. ASSUME NEW c \in DOMAIN reg.cmds, NEW a \in AliasPaths(c, reg.cmds[c])
      PROVE  a \notin Ancestors(f) /\ (a = f => f = push(opts.ns, "completions"))
  <2>1. CASE c \in AppCmds
    <3>1. a \in AppAliases
      BY <2>1 DEF AppAliases
    <3> QED BY <1>3, <3>1
  <2>2. CASE FrameworkCommand(c)
    <3>1. a = push(opts.ns, "completions")
      BY <2>2 DEF Origins
    <3>2. push(opts.ns, "completions") \in FrameworkNames
      BY <1>1, NamesAre
    <3> QED BY <1>4, <3>1, <3>2
  <2> QED BY <1>2, <2>1, <2>2
<1>8. ASSUME NEW g \in reg.groups
      PROVE  g # f /\ f \notin Ancestors(g)
  <2>1. CASE g \in mine
    BY <2>1 DEF Clash
  <2>2. CASE g \notin mine
    <3>1. g \in {<<"auth">>, <<"config">>, <<"telemetry">>, <<"mcp">>, push(opts.ns, "self")}
      BY <1>1, <2>2, PlacedNames DEF Origins
    <3>2. g # f
      <4>1. "self" \in Segments
        BY Literals
      <4>2. leaf(g) \in {"auth", "config", "telemetry", "self", "mcp"}
        BY <1>1, <3>1, <4>1, Shapes
      <4> QED BY <1>1, <4>2, NameShape
    <3>3. CASE g \in {<<"auth">>, <<"config">>, <<"telemetry">>, <<"mcp">>}
      BY <1>1, <3>2, <3>3, Shapes
    <3>4. CASE g = push(opts.ns, "self") /\ g \notin {<<"auth">>, <<"config">>, <<"telemetry">>, <<"mcp">>}
      <4>1. push(g, "install") \in FrameworkNames
        <5>1. PlacedGroup(g)
          BY <2>2 DEF Origins
        <5> QED BY <1>1, <3>4, <5>1, PlacedNames
      <4>2. g \in Seq(Segments) /\ "install" \in Segments
        BY <1>1, <3>4, Literals, Shapes
      <4>3. f \in Seq(Segments) /\ f \in Paths
        BY <1>1, NameShape
      <4>4. f \in Ancestors(g) => f \in Ancestors(push(g, "install"))
        <5>1. push(g, "install") \in Seq(Segments)
          BY <4>2, PushFacts, PathFacts
        <5>2. f \in Ancestors(g) => Below(f, g)
          BY <4>2, AncestorsFacts
        <5>3. Below(f, g) => Below(f, push(g, "install"))
          BY <4>2, <4>3, BelowPush
        <5> QED BY <4>3, <5>1, <5>2, <5>3, AncestorsFacts
      <4> QED BY <1>4, <3>2, <4>1, <4>4
    <3> QED BY <3>1, <3>2, <3>3, <3>4
  <2> QED BY <2>1, <2>2
<1> QED BY <1>6, <1>7, <1>8

\* So a name that is not there yet is free, and so is a group above one.
LEMMA NameIsFree ==
    ASSUME BaseInv, Origins, ~Clash, NEW f \in FrameworkNames, ~FrameworkCommand(f),
           f # push(opts.ns, "completions")
    PROVE  /\ Clear(reg, f) /\ ~path_has_descendants(reg, f)
           /\ \A cmd : AliasPaths(f, cmd) = {} => register_at_error(reg, f, cmd) = "none"
<1>1. reg \in RegistrySet /\ opts \in OptSet /\ f \in Paths /\ f \in Seq(Segments)
  BY NameShape DEF BaseInv
<1>2. /\ f \notin DOMAIN reg.cmds \cup reg.groups /\ ~command_ancestor(reg, f)
      /\ ~existing_alias_for_path(reg, f) /\ ~existing_alias_ancestor(reg, f)
  BY NothingInTheWay DEF command_ancestor, existing_alias_for_path, existing_alias_ancestor
<1>3. ~path_has_descendants(reg, f)
  <2>1. \A q \in DOMAIN reg.cmds \cup reg.groups : q \in Seq(Segments)
    BY <1>1, RegistryFacts, PathFacts
  <2>2. \A q \in DOMAIN reg.cmds \cup reg.groups : ~Below(f, q)
    BY <1>1, <2>1, AncestorsFacts, NothingInTheWay
  <2> QED BY <2>2 DEF path_has_descendants
<1>4. \A cmd : AliasPaths(f, cmd) = {} => register_at_error(reg, f, cmd) = "none"
  BY <1>2, <1>3 DEF register_at_error
<1> QED BY <1>2, <1>3, <1>4 DEF Clear

\* So a group above it can be registered.
LEMMA GroupIsFree ==
    ASSUME BaseInv, Origins, ~Clash, NEW f \in FrameworkNames, NEW g \in Ancestors(f),
           g \notin reg.groups
    PROVE  register_group_error(reg, g) = "none" /\ g \notin DOMAIN reg.cmds
<1>1. opts \in OptSet /\ f \in Paths /\ f \in Seq(Segments)
  BY NameShape DEF BaseInv
<1>2. g \in Paths /\ Below(g, f) /\ g \in Seq(Segments)
  BY <1>1, AncestorsFacts, PathFacts
<1>3. Ancestors(g) \subseteq Ancestors(f)
  <2> SUFFICES ASSUME NEW a \in Ancestors(g)
               PROVE  a \in Ancestors(f)
    OBVIOUS
  <2>1. a \in Paths /\ Below(a, g) /\ a \in Seq(Segments)
    BY <1>2, AncestorsFacts, PathFacts
  <2> QED BY <1>1, <1>2, <2>1, BelowTransitive, AncestorsFacts
<1>4. /\ g \notin DOMAIN reg.cmds /\ ~command_ancestor(reg, g)
      /\ ~existing_alias_for_path(reg, g) /\ ~existing_alias_ancestor(reg, g)
  BY <1>3, NothingInTheWay DEF command_ancestor, existing_alias_for_path, existing_alias_ancestor
<1> QED BY <1>4 DEF register_group_error

\* The parent of a name is above it.
LEMMA ParentIsAbove ==
    ASSUME NEW g \in Paths, NEW f \in Paths, Front(f) = g
    PROVE  g \in Ancestors(f)
<1>1. g \in Seq(Segments) /\ f \in Seq(Segments) /\ leaf(f) \in Segments /\ f = push(g, leaf(f))
  BY PathFacts
<1>2. Below(g, f)
  BY <1>1, BelowPush
<1> QED BY <1>1, <1>2, AncestorsFacts

-----------------------------------------------------------------------------
(* A step of build.                                                        *)

\* Every step of build ends in a later set of stages.
LEMMA AfterGrows ==
    ASSUME stage \in AfterChecks, stage # "built", stage' = NextStage(stage)
    PROVE  /\ stage' \in AfterChat
           /\ stage \in AfterChat => stage' \in AfterAuth
           /\ stage \in AfterAuth => stage' \in AfterConfig
           /\ stage \in AfterConfig => stage' \in AfterTelemetry
           /\ stage \in AfterTelemetry => stage' \in AfterTelemetry
           /\ stage \in AfterSpec => stage' \in AfterDoctor
           /\ stage \in AfterDoctor => stage' \in AfterSelf
           /\ stage \in AfterSelf => stage' \in AfterCompletion
           /\ stage \in AfterCompletion => stage' \in AfterMcpServe
           /\ stage \in AfterMcpServe => stage' \in AfterMcpInstall
<1> USE DEF AfterChecks, AfterChat, AfterAuth, AfterConfig, AfterTelemetry, AfterSpec, AfterDoctor,
            AfterSelf, AfterCompletion, AfterMcpServe, AfterMcpInstall
<1>1. stage \in {"chat", "auth", "config", "telemetry", "namespace", "spec", "doctor", "self",
                 "completion", "mcp_serve", "mcp_install", "clap"}
  OBVIOUS
<1>2. CASE stage = "chat"
  BY <1>2, NextStages
<1>3. CASE stage = "auth"
  BY <1>3, NextStages
<1>4. CASE stage = "config"
  BY <1>4, NextStages
<1>5. CASE stage = "telemetry"
  BY <1>5, NextStages
<1>6. CASE stage = "namespace"
  BY <1>6, NextStages
<1>7. CASE stage = "spec"
  BY <1>7, NextStages
<1>8. CASE stage = "doctor"
  BY <1>8, NextStages
<1>9. CASE stage = "self"
  BY <1>9, NextStages
<1>10. CASE stage = "completion"
  BY <1>10, NextStages
<1>11. CASE stage = "mcp_serve"
  BY <1>11, NextStages
<1>12. CASE stage = "mcp_install"
  BY <1>12, NextStages
<1>13. CASE stage = "clap"
  BY <1>13, NextStages
<1> QED BY <1>1, <1>2, <1>3, <1>4, <1>5, <1>6, <1>7, <1>8, <1>9, <1>10, <1>11, <1>12, <1>13

\* Each set of stages is part of the ones of the steps before.
LEMMA AfterNested ==
    /\ AfterMcpInstall \subseteq AfterMcpServe /\ AfterMcpServe \subseteq AfterCompletion
    /\ AfterCompletion \subseteq AfterSelf /\ AfterSelf \subseteq AfterDoctor
    /\ AfterDoctor \subseteq AfterSpec /\ AfterSpec \subseteq AfterTelemetry
    /\ AfterTelemetry \subseteq AfterConfig /\ AfterConfig \subseteq AfterAuth
    /\ AfterAuth \subseteq AfterChat /\ AfterChat \subseteq AfterChecks
    /\ {"building", "checks", "failed", "panicked", "refused"} \cap AfterChecks = {}
    /\ "chat" \notin AfterChat /\ "built" \in AfterMcpInstall
BY DEF AfterChecks, AfterChat, AfterAuth, AfterConfig, AfterTelemetry, AfterSpec, AfterDoctor,
       AfterSelf, AfterCompletion, AfterMcpServe, AfterMcpInstall

\* What is placed stays placed.
LEMMA PlacedGrows ==
    ASSUME stage \in AfterChecks, stage # "built", stage' = NextStage(stage), opts' = opts
    PROVE  /\ \A p : Placed(p) => Placed(p)'
           /\ \A g : PlacedGroup(g) => PlacedGroup(g)'
<1>1. /\ stage \in AfterChat => stage' \in AfterChat
      /\ stage \in AfterAuth => stage' \in AfterAuth
      /\ stage \in AfterConfig => stage' \in AfterConfig
      /\ stage \in AfterTelemetry => stage' \in AfterTelemetry
      /\ stage \in AfterSpec => stage' \in AfterSpec
      /\ stage \in AfterDoctor => stage' \in AfterDoctor
      /\ stage \in AfterSelf => stage' \in AfterSelf
      /\ stage \in AfterCompletion => stage' \in AfterCompletion
      /\ stage \in AfterMcpServe => stage' \in AfterMcpServe
      /\ stage \in AfterMcpInstall => stage' \in AfterMcpInstall
  BY AfterGrows, AfterNested
<1> QED BY <1>1 DEF Placed, PlacedGroup

\* A clash is between the app's names and the options.
LEMMA ClashStays ==
    ASSUME AppCmds' = AppCmds, AppAliases' = AppAliases, mine' = mine, opts' = opts
    PROVE  (Clash' <=> Clash) /\ FrameworkNames' = FrameworkNames
<1>1. FrameworkNames' = FrameworkNames
  BY DEF FrameworkNames, Wanted
<1> QED BY <1>1 DEF Clash

\* What the framework adds is not the app's.
LEMMA FrameworkAdds ==
    ASSUME reg \in RegistrySet, NEW L, NEW G, NEW cmd, cmd.owner = "framework",
           Adds(reg, reg', L, G, cmd)
    PROVE  /\ AppCmds' = AppCmds /\ AppAliases' = AppAliases
           /\ \A p : FrameworkCommand(p)' <=> FrameworkCommand(p) \/ p \in L \ DOMAIN reg.cmds
<1>1. AppCmds' = AppCmds
  BY DEF Adds, AppCmds
<1>2. \A p \in AppCmds : reg'.cmds[p] = reg.cmds[p]
  BY DEF Adds, AppCmds
<1>3. AppAliases' = AppAliases
  BY <1>1, <1>2 DEF AppAliases
<1>4. \A p : FrameworkCommand(p)' <=> FrameworkCommand(p) \/ p \in L \ DOMAIN reg.cmds
  BY DEF Adds, FrameworkCommand
<1> QED BY <1>1, <1>3, <1>4

\* Nothing added is an addition, too.
LEMMA NothingAdded ==
    ASSUME BaseInv, reg' = reg, NEW cmd
    PROVE  Adds(reg, reg', {}, {}, cmd) /\ Unambiguous(reg')
BY DEF BaseInv, Adds

\* A step that ends well.
LEMMA StepKeeps ==
    ASSUME AppInv, stage \in AfterChecks, stage # "built", stage' = NextStage(stage),
           UNCHANGED <<opts, mine, last>>,
           NEW L \in SUBSET Paths, NEW G \in SUBSET Paths, NEW cmd \in CommandSet,
           cmd.owner = "framework", Adds(reg, reg', L, G, cmd), Unambiguous(reg'),
           \A p \in L : Placed(p)',
           \A g \in G : PlacedGroup(g)',
           \A p \in L : \/ AliasPaths(p, cmd) = {}
                        \/ stage' \in AfterCompletion /\ AliasPaths(p, cmd) = {push(opts.ns, "completions")},
           ~Clash => \A p : Placed(p)' /\ p # push(opts.ns, "doctor") =>
                       Placed(p) \/ p \in L \/ p \in DOMAIN reg.cmds,
           sees' \in [mcp : SUBSET DOMAIN reg.cmds, completion : SUBSET DOMAIN reg.cmds],
           Snapshots'
    PROVE  AppInv'
<1>1. reg \in RegistrySet /\ opts \in OptSet /\ BaseInv /\ Origins /\ Got /\ Deployed /\ SelfOfAnEndUser
  BY AfterNested DEF AppInv, BaseInv
<1>2. stage' \in AfterChat
  BY AfterGrows
<1>3. BaseInv'
  <2>1. reg' \in RegistrySet /\ DOMAIN reg.cmds \subseteq DOMAIN reg'.cmds /\ reg.groups \subseteq reg'.groups
    BY DEF Adds
  <2> QED BY <1>1, <1>2, <2>1, AfterNested DEF BaseInv
<1>4. LastInv'
  BY DEF AppInv, LastInv
<1>5. AppCmds' = AppCmds /\ AppAliases' = AppAliases
      /\ \A p : FrameworkCommand(p)' <=> FrameworkCommand(p) \/ p \in L \ DOMAIN reg.cmds
  BY <1>1, FrameworkAdds
<1>6. /\ \A p : Placed(p) => Placed(p)'
      /\ \A g : PlacedGroup(g) => PlacedGroup(g)'
  BY PlacedGrows
<1>7. Origins'
  <2>1. ASSUME NEW p, FrameworkCommand(p)'
        PROVE  /\ Placed(p)'
               /\ \/ AliasPaths(p, reg'.cmds[p]) = {}
                  \/ stage' \in AfterCompletion /\ AliasPaths(p, reg'.cmds[p]) = {push(opts.ns, "completions")}
    <3>1. CASE FrameworkCommand(p)
      <4>1. reg'.cmds[p] = reg.cmds[p]
        BY <3>1 DEF FrameworkCommand, Adds
      <4>2. stage \in AfterCompletion => stage' \in AfterCompletion
        BY AfterGrows, AfterNested
      <4> QED BY <1>1, <1>6, <3>1, <4>1, <4>2 DEF Origins
    <3>2. CASE p \in L \ DOMAIN reg.cmds
      <4>1. reg'.cmds[p] = cmd
        BY <3>2 DEF Adds
      <4> QED BY <3>2, <4>1
    <3> QED BY <1>5, <2>1, <3>1, <3>2
  <2>2. \A g \in reg'.groups \ mine' : PlacedGroup(g)'
    BY <1>1, <1>6 DEF Origins, Adds
  <2> QED BY <2>1, <2>2 DEF Origins
<1>8. Got'
  <2>1. Clash' <=> Clash
    BY <1>5, ClashStays
  <2>2. ASSUME ~Clash, NEW p, Placed(p)', p # push(opts.ns, "doctor")
        PROVE  p \in DOMAIN reg'.cmds
    BY <1>1, <2>2 DEF Got, Adds
  <2> QED BY <2>1, <2>2 DEF Got
<1>9. Deployed' /\ SelfOfAnEndUser'
  BY <1>1 DEF Deployed, SelfOfAnEndUser
<1>10. stage' \notin {"building", "checks", "chat", "failed", "panicked"}
  BY <1>2, AfterNested
<1> QED BY <1>2, <1>3, <1>4, <1>7, <1>8, <1>9, <1>10, AfterNested DEF AppInv

\* A step that ends with an error or a panic.
LEMMA StopKeeps ==
    ASSUME AppInv, stage \in AfterChecks, stage # "built", UNCHANGED <<env, opts, mine, last>>,
           sees' \in [mcp : SUBSET DOMAIN reg.cmds, completion : SUBSET DOMAIN reg.cmds],
           \/ Err /\ FailedForAReason
           \/ Panic /\ Clash /\ Taken
    PROVE  AppInv'
<1>1. reg' = reg /\ stage' \in {"failed", "panicked"}
  BY DEF Err, Panic
<1>2. BaseInv'
  BY <1>1 DEF AppInv, BaseInv
<1>3. LastInv'
  BY DEF AppInv, LastInv
<1>4. AppCmds' = AppCmds /\ AppAliases' = AppAliases
  BY <1>1 DEF AppCmds, AppAliases
<1>5. stage' = "failed" => FailedForAReason'
  <2>1. Clash' <=> Clash
    BY <1>4, ClashStays
  <2>2. Declared' = Declared
    BY <1>1, <1>4 DEF Declared
  <2>3. (VariablesRefused' <=> VariablesRefused) /\ (Withdrawn' <=> Withdrawn)
    BY <2>2 DEF VariablesRefused, Withdrawn
  <2> QED BY <1>4, <2>1, <2>3 DEF FailedForAReason, Panic
<1>6. stage' = "panicked" => Clash' /\ Taken'
  <2>1. Clash' <=> Clash
    BY <1>4, ClashStays
  <2> QED BY <1>4, <2>1 DEF Taken, Err
<1> QED BY <1>1, <1>2, <1>3, <1>5, <1>6, AfterNested DEF AppInv

\* Where a placed command is, and from which step.
LEMMA PlacedShapes ==
    ASSUME opts \in OptSet, NEW p, Placed(p)
    PROVE  \/ stage \in AfterChat /\ p = <<"chat">> /\ leaf(p) = "chat"
           \/ stage \in AfterAuth /\ leaf(p) \in AuthLeaves /\ Front(p) = <<"auth">>
           \/ stage \in AfterConfig /\ leaf(p) \in ConfigLeaves /\ Front(p) = <<"config">>
           \/ stage \in AfterTelemetry /\ leaf(p) \in TelemetryLeaves /\ Front(p) = <<"telemetry">>
           \/ stage \in AfterSpec /\ leaf(p) = "spec" /\ Front(p) = opts.ns
           \/ stage \in AfterDoctor /\ leaf(p) = "doctor" /\ Front(p) = opts.ns
           \/ stage \in AfterSelf /\ leaf(p) \in SelfLeaves /\ Front(p) = push(opts.ns, "self")
           \/ stage \in AfterCompletion /\ leaf(p) = "completion" /\ Front(p) = opts.ns
           \/ stage \in AfterMcpServe /\ leaf(p) = "serve" /\ Front(p) = <<"mcp">>
           \/ stage \in AfterMcpInstall /\ leaf(p) \in {"install", "list"} /\ Front(p) = <<"mcp">>
<1>1. /\ AuthLeaves \in SUBSET Segments /\ ConfigLeaves \in SUBSET Segments
      /\ TelemetryLeaves \in SUBSET Segments /\ SelfLeaves \in SUBSET Segments
      /\ "spec" \in Segments /\ "doctor" \in Segments /\ "completion" \in Segments /\ "self" \in Segments
  BY Literals
<1>2. /\ \A q \in Under(<<"auth">>, AuthLeaves) : leaf(q) \in AuthLeaves /\ Front(q) = <<"auth">>
      /\ \A q \in Under(<<"config">>, ConfigLeaves) : leaf(q) \in ConfigLeaves /\ Front(q) = <<"config">>
      /\ \A q \in Under(<<"telemetry">>, TelemetryLeaves) :
           leaf(q) \in TelemetryLeaves /\ Front(q) = <<"telemetry">>
      /\ \A q \in Under(push(opts.ns, "self"), SelfLeaves) :
           leaf(q) \in SelfLeaves /\ Front(q) = push(opts.ns, "self")
  <2>1. <<"auth">> \in Seq(Segments) /\ <<"config">> \in Seq(Segments) /\ <<"telemetry">> \in Seq(Segments)
        /\ push(opts.ns, "self") \in Seq(Segments)
    BY <1>1, Shapes
  <2> QED BY <1>1, <2>1, UnderFacts
<1>3. /\ leaf(push(opts.ns, "spec")) = "spec" /\ Front(push(opts.ns, "spec")) = opts.ns
      /\ leaf(push(opts.ns, "doctor")) = "doctor" /\ Front(push(opts.ns, "doctor")) = opts.ns
      /\ leaf(push(opts.ns, "completion")) = "completion" /\ Front(push(opts.ns, "completion")) = opts.ns
  BY <1>1, Shapes
<1>4. /\ leaf(<<"chat">>) = "chat" /\ leaf(<<"mcp", "serve">>) = "serve"
      /\ leaf(<<"mcp", "install">>) = "install" /\ leaf(<<"mcp", "list">>) = "list"
      /\ Front(<<"mcp", "serve">>) = <<"mcp">> /\ Front(<<"mcp", "install">>) = <<"mcp">>
      /\ Front(<<"mcp", "list">>) = <<"mcp">>
  BY Shapes DEF McpNames
<1> QED BY <1>2, <1>3, <1>4 DEF Placed

\* The leaves of the groups.
LEMMA GroupLeaves ==
    ASSUME opts \in OptSet
    PROVE  /\ leaf(<<"auth">>) = "auth" /\ leaf(<<"config">>) = "config"
           /\ leaf(<<"telemetry">>) = "telemetry" /\ leaf(<<"mcp">>) = "mcp"
           /\ leaf(push(opts.ns, "self")) = "self"
           /\ <<"auth">> \in Paths /\ <<"config">> \in Paths /\ <<"telemetry">> \in Paths
           /\ <<"mcp">> \in Paths /\ push(opts.ns, "self") \in Paths
<1>1. "self" \in Segments
  BY Literals
<1> QED BY <1>1, Shapes

\* Without a clash the app has none of the groups the framework insists on.
LEMMA NoGroupTaken ==
    ASSUME opts \in OptSet, ~Clash
    PROVE  /\ <<"auth">> \notin mine /\ <<"config">> \notin mine /\ <<"telemetry">> \notin mine
           /\ push(opts.ns, "self") \notin mine
<1>1. <<"chat">> \in FrameworkNames
  BY NamesAre
<1> QED BY <1>1 DEF Clash

\* A step that registers a group and its leaves, or is skipped.
LEMMA GroupStage ==
    ASSUME AppInv, stage \in AfterChecks, stage # "built", UNCHANGED <<env, opts, mine, last, sees>>,
           NEW group \in Paths, NEW leaves \in SUBSET Segments, leaves # {}, NEW skip \in BOOLEAN,
           IF skip THEN Done(stage, reg) ELSE PutGroup(stage, group, leaves),
           NextStage(stage) \notin AfterCompletion,
           stage' = NextStage(stage) => \A p : Placed(p)' =>
             Placed(p) \/ Clash \/ (~skip /\ p \in Under(group, leaves)),
           ~skip /\ stage' = NextStage(stage) =>
             PlacedGroup(group)' /\ \A p \in Under(group, leaves) : Placed(p)',
           ~skip => \A p \in Under(group, leaves) : p \in FrameworkNames /\ ~FrameworkCommand(p)
                                                    /\ p # push(opts.ns, "completions"),
           ~skip /\ ~Clash => group \notin reg.groups
    PROVE  AppInv'
<1>1. BaseInv /\ Origins /\ reg \in RegistrySet /\ Unambiguous(reg) /\ opts \in OptSet
      /\ sees \in [mcp : SUBSET DOMAIN reg.cmds, completion : SUBSET DOMAIN reg.cmds]
  BY DEF AppInv, BaseInv
<1>2. Builtin \in CommandSet /\ Builtin.owner = "framework" /\ \A p : AliasPaths(p, Builtin) = {}
  BY BuiltinFacts DEF AliasPaths
<1>3. stage' = NextStage(stage) => Snapshots'
  BY AfterNested DEF Snapshots
<1>4. CASE skip
  <2>1. stage' = NextStage(stage) /\ reg' = reg
    BY <1>4 DEF Done
  <2>2. Adds(reg, reg', {}, {}, Builtin) /\ Unambiguous(reg')
    BY <1>1, <2>1, NothingAdded
  <2> QED BY <1>1, <1>2, <1>3, <1>4, <2>1, <2>2, StepKeeps
<1>5. CASE ~skip
  <2> DEFINE paths == Under(group, leaves)
             good == /\ stage' = NextStage(stage) /\ Unambiguous(reg') /\ reg'.completion = reg.completion
                     /\ Adds(reg, reg', paths, {group}, Builtin)
  <2>0. group \in Seq(Segments) /\ \A p \in paths : p \in Paths /\ Front(p) = group
    BY PathFacts, UnderFacts
  <2>1. PutGroup(stage, group, leaves)
    BY <1>5
  <2>2. /\ Err \/ good
        /\ (/\ register_group_error(reg, group) = "none"
            /\ \A p \in paths : register_at_error(reg, p, Builtin) = "none") => good
    BY <1>1, <2>1, PutGroupAdds
  <2>3. ~Clash => good
    <3> SUFFICES ASSUME ~Clash PROVE good
      OBVIOUS
    <3>1. PICK p \in paths : TRUE
      BY DEF Under
    <3>2. group \in Ancestors(p) /\ p \in FrameworkNames
      BY <1>5, <2>0, ParentIsAbove
    <3>3. register_group_error(reg, group) = "none"
      BY <1>1, <1>5, <3>2, GroupIsFree
    <3>4. \A q \in paths : register_at_error(reg, q, Builtin) = "none"
      BY <1>1, <1>2, <1>5, NameIsFree
    <3> QED BY <2>2, <3>3, <3>4
  <2>4. CASE good
    <3>1. paths \in SUBSET Paths /\ {group} \in SUBSET Paths
      BY <2>0
    <3>2. /\ \A p \in paths : Placed(p)'
          /\ \A g \in {group} : PlacedGroup(g)'
      BY <1>5, <2>4
    <3>3. ~Clash => \A p : Placed(p)' /\ p # push(opts.ns, "doctor") =>
                      Placed(p) \/ p \in paths \/ p \in DOMAIN reg.cmds
      BY <2>4
    <3>4. sees' = sees /\ stage' = NextStage(stage) /\ Unambiguous(reg')
          /\ Adds(reg, reg', paths, {group}, Builtin)
      BY <2>4
    <3> HIDE DEF paths, good
    <3> QED BY <1>1, <1>2, <1>3, <3>1, <3>2, <3>3, <3>4, StepKeeps
  <2>5. CASE Err /\ ~good
    <3>1. Clash
      BY <2>3, <2>5
    <3> QED BY <1>1, <2>5, <3>1, StopKeeps DEF FailedForAReason
  <2> QED BY <2>2, <2>4, <2>5
<1> QED BY <1>4, <1>5

\* register_auth_commands.
LEMMA AuthKeeps ==
    ASSUME AppInv, BuildAuth
    PROVE  AppInv'
<1> DEFINE skip == ~opts.provider \/ resolve(reg, <<"auth">>)
<1>1. BaseInv /\ Origins /\ opts \in OptSet /\ stage = "auth" /\ stage \in AfterChecks /\ stage # "built"
      /\ UNCHANGED <<env, opts, mine, last, sees>> /\ SelfOfAnEndUser
      /\ NextStage(stage) = "config"
  BY NextStages DEF BuildAuth, AtStage, AppInv, BaseInv, AfterChecks, AfterTelemetry, AfterSelf
<1>2. IF skip THEN Done(stage, reg) ELSE PutGroup(stage, <<"auth">>, AuthLeaves)
  BY <1>1 DEF BuildAuth, AuthLeaves
<1>3. /\ <<"auth">> \in Paths /\ AuthLeaves \in SUBSET Segments /\ AuthLeaves # {} /\ skip \in BOOLEAN
      /\ (~skip => opts.provider)
  BY <1>1, GroupLeaves, Literals DEF AuthLeaves, OptSet, SelfOfAnEndUser
<1>4. "config" \notin AfterCompletion
  BY DEF AfterCompletion
<1>5. \A p \in Under(<<"auth">>, AuthLeaves) :
        p \in Paths /\ leaf(p) \in AuthLeaves /\ Front(p) = <<"auth">>
  BY <1>3, PathFacts, UnderFacts
<1>6. ASSUME ~skip, NEW p \in Under(<<"auth">>, AuthLeaves)
      PROVE  p \in FrameworkNames /\ ~FrameworkCommand(p) /\ p # push(opts.ns, "completions")
  <2>1. p \in FrameworkNames
    BY <1>1, <1>3, <1>6, NamesAre
  <2>2. leaf(p) \in AuthLeaves /\ Front(p) = <<"auth">>
    BY <1>5, <1>6
  <2>3. leaf(push(opts.ns, "completions")) = "completions"
    BY <1>1, Literals, Shapes
  <2>4. ~Placed(p)
    BY <1>1, <2>2, PlacedShapes, GroupLeaves DEF AuthLeaves, ConfigLeaves, TelemetryLeaves, SelfLeaves,
       AfterChat, AfterAuth, AfterConfig, AfterTelemetry, AfterSpec,
       AfterDoctor, AfterSelf, AfterCompletion, AfterMcpServe, AfterMcpInstall
  <2> QED BY <1>1, <2>1, <2>2, <2>3, <2>4 DEF Origins, AuthLeaves
<1>7. ~PlacedGroup(<<"auth">>)
  BY <1>1, GroupLeaves DEF PlacedGroup, AfterAuth, AfterConfig, AfterTelemetry, AfterSelf, AfterMcpServe
<1>8. ASSUME ~Clash, opts.provider
      PROVE  ~resolve(reg, <<"auth">>) /\ <<"auth">> \notin reg.groups
  <2>1. push(<<"auth">>, "login") \in Under(<<"auth">>, AuthLeaves)
    BY DEF Under, AuthLeaves
  <2>2. push(<<"auth">>, "login") \in FrameworkNames
        /\ <<"auth">> \in Ancestors(push(<<"auth">>, "login"))
    BY <1>1, <1>3, <1>5, <1>8, <2>1, NamesAre, ParentIsAbove
  <2> QED BY <1>1, <1>7, <1>8, <2>2, NothingInTheWay, NoGroupTaken DEF resolve, Origins
<1>9. ASSUME stage' = NextStage(stage)
      PROVE  /\ \A p : Placed(p)' =>
                  Placed(p) \/ Clash \/ (~skip /\ p \in Under(<<"auth">>, AuthLeaves))
             /\ ~skip => PlacedGroup(<<"auth">>)' /\ \A p \in Under(<<"auth">>, AuthLeaves) : Placed(p)'
  <2>1. /\ \A p : Placed(p)' => Placed(p) \/ (opts.provider /\ p \in Under(<<"auth">>, AuthLeaves))
        /\ opts.provider => PlacedGroup(<<"auth">>)' /\ \A p \in Under(<<"auth">>, AuthLeaves) : Placed(p)'
    BY <1>1, <1>9 DEF Placed, PlacedGroup,
       AfterChat, AfterAuth, AfterConfig, AfterTelemetry, AfterSpec,
       AfterDoctor, AfterSelf, AfterCompletion, AfterMcpServe, AfterMcpInstall
  <2>2. opts.provider /\ ~Clash => ~skip
    BY <1>8
  <2> QED BY <1>3, <2>1, <2>2
<1>10. ~skip /\ ~Clash => <<"auth">> \notin reg.groups
  BY <1>3, <1>8
<1> HIDE DEF skip
<1> QED BY <1>1, <1>2, <1>3, <1>4, <1>6, <1>9, <1>10, GroupStage

\* register_config_commands.
LEMMA ConfigKeeps ==
    ASSUME AppInv, BuildConfig
    PROVE  AppInv'
<1> DEFINE skip == ~opts.manifest \/ resolve(reg, <<"config">>)
<1>1. BaseInv /\ Origins /\ opts \in OptSet /\ stage = "config" /\ stage \in AfterChecks /\ stage # "built"
      /\ UNCHANGED <<env, opts, mine, last, sees>> /\ SelfOfAnEndUser
      /\ NextStage(stage) = "telemetry"
  BY NextStages DEF BuildConfig, AtStage, AppInv, BaseInv, AfterChecks, AfterTelemetry, AfterSelf
<1>2. IF skip THEN Done(stage, reg) ELSE PutGroup(stage, <<"config">>, ConfigLeaves)
  BY <1>1 DEF BuildConfig, ConfigLeaves
<1>3. /\ <<"config">> \in Paths /\ ConfigLeaves \in SUBSET Segments /\ ConfigLeaves # {} /\ skip \in BOOLEAN
      /\ (~skip => opts.manifest)
  BY <1>1, GroupLeaves, Literals DEF ConfigLeaves, OptSet, SelfOfAnEndUser
<1>4. "telemetry" \notin AfterCompletion
  BY DEF AfterCompletion
<1>5. \A p \in Under(<<"config">>, ConfigLeaves) :
        p \in Paths /\ leaf(p) \in ConfigLeaves /\ Front(p) = <<"config">>
  BY <1>3, PathFacts, UnderFacts
<1>6. ASSUME ~skip, NEW p \in Under(<<"config">>, ConfigLeaves)
      PROVE  p \in FrameworkNames /\ ~FrameworkCommand(p) /\ p # push(opts.ns, "completions")
  <2>1. p \in FrameworkNames
    BY <1>1, <1>3, <1>6, NamesAre
  <2>2. leaf(p) \in ConfigLeaves /\ Front(p) = <<"config">>
    BY <1>5, <1>6
  <2>3. leaf(push(opts.ns, "completions")) = "completions"
    BY <1>1, Literals, Shapes
  <2>4. ~Placed(p)
    BY <1>1, <2>2, PlacedShapes, GroupLeaves DEF AuthLeaves, ConfigLeaves, TelemetryLeaves, SelfLeaves,
       AfterChat, AfterAuth, AfterConfig, AfterTelemetry, AfterSpec,
       AfterDoctor, AfterSelf, AfterCompletion, AfterMcpServe, AfterMcpInstall
  <2> QED BY <1>1, <2>1, <2>2, <2>3, <2>4 DEF Origins, ConfigLeaves
<1>7. ~PlacedGroup(<<"config">>)
  BY <1>1, GroupLeaves DEF PlacedGroup, AfterAuth, AfterConfig, AfterTelemetry, AfterSelf, AfterMcpServe
<1>8. ASSUME ~Clash, opts.manifest
      PROVE  ~resolve(reg, <<"config">>) /\ <<"config">> \notin reg.groups
  <2>1. push(<<"config">>, "show") \in Under(<<"config">>, ConfigLeaves)
    BY DEF Under, ConfigLeaves
  <2>2. push(<<"config">>, "show") \in FrameworkNames
        /\ <<"config">> \in Ancestors(push(<<"config">>, "show"))
    BY <1>1, <1>3, <1>5, <1>8, <2>1, NamesAre, ParentIsAbove
  <2> QED BY <1>1, <1>7, <1>8, <2>2, NothingInTheWay, NoGroupTaken DEF resolve, Origins
<1>9. ASSUME stage' = NextStage(stage)
      PROVE  /\ \A p : Placed(p)' =>
                  Placed(p) \/ Clash \/ (~skip /\ p \in Under(<<"config">>, ConfigLeaves))
             /\ ~skip => PlacedGroup(<<"config">>)' /\ \A p \in Under(<<"config">>, ConfigLeaves) : Placed(p)'
  <2>1. /\ \A p : Placed(p)' => Placed(p) \/ (opts.manifest /\ p \in Under(<<"config">>, ConfigLeaves))
        /\ opts.manifest => PlacedGroup(<<"config">>)' /\ \A p \in Under(<<"config">>, ConfigLeaves) : Placed(p)'
    BY <1>1, <1>9 DEF Placed, PlacedGroup,
       AfterChat, AfterAuth, AfterConfig, AfterTelemetry, AfterSpec,
       AfterDoctor, AfterSelf, AfterCompletion, AfterMcpServe, AfterMcpInstall
  <2>2. opts.manifest /\ ~Clash => ~skip
    BY <1>8
  <2> QED BY <1>3, <2>1, <2>2
<1>10. ~skip /\ ~Clash => <<"config">> \notin reg.groups
  BY <1>3, <1>8
<1> HIDE DEF skip
<1> QED BY <1>1, <1>2, <1>3, <1>4, <1>6, <1>9, <1>10, GroupStage

\* register_telemetry_commands.
LEMMA TelemetryKeeps ==
    ASSUME AppInv, BuildTelemetry
    PROVE  AppInv'
<1> DEFINE skip == \/ ~opts.end_user \/ Withdrawn
                   \/ resolve(reg, <<"telemetry">>) \/ <<"telemetry">> \in reg.groups
<1>1. BaseInv /\ Origins /\ opts \in OptSet /\ stage = "telemetry" /\ stage \in AfterChecks /\ stage # "built"
      /\ UNCHANGED <<env, opts, mine, last, sees>> /\ SelfOfAnEndUser
      /\ NextStage(stage) = "namespace"
  BY NextStages DEF BuildTelemetry, AtStage, AppInv, BaseInv, AfterChecks, AfterTelemetry, AfterSelf
<1>2. IF skip THEN Done(stage, reg) ELSE PutGroup(stage, <<"telemetry">>, TelemetryLeaves)
  BY <1>1 DEF BuildTelemetry, TelemetryLeaves
<1>3. /\ <<"telemetry">> \in Paths /\ TelemetryLeaves \in SUBSET Segments /\ TelemetryLeaves # {}
      /\ skip \in BOOLEAN
      /\ (~skip => (opts.end_user /\ ~opts.withdrawn))
  BY <1>1, GroupLeaves, Literals DEF TelemetryLeaves, OptSet, SelfOfAnEndUser, Withdrawn
<1>4. "namespace" \notin AfterCompletion
  BY DEF AfterCompletion
<1>5. \A p \in Under(<<"telemetry">>, TelemetryLeaves) :
        p \in Paths /\ leaf(p) \in TelemetryLeaves /\ Front(p) = <<"telemetry">>
  BY <1>3, PathFacts, UnderFacts
<1>6. ASSUME ~skip, NEW p \in Under(<<"telemetry">>, TelemetryLeaves)
      PROVE  p \in FrameworkNames /\ ~FrameworkCommand(p) /\ p # push(opts.ns, "completions")
  <2>1. p \in FrameworkNames
    BY <1>1, <1>3, <1>6, NamesAre
  <2>2. leaf(p) \in TelemetryLeaves /\ Front(p) = <<"telemetry">>
    BY <1>5, <1>6
  <2>3. leaf(push(opts.ns, "completions")) = "completions"
    BY <1>1, Literals, Shapes
  <2>4. ~Placed(p)
    BY <1>1, <2>2, PlacedShapes, GroupLeaves DEF AuthLeaves, ConfigLeaves, TelemetryLeaves, SelfLeaves,
       AfterChat, AfterAuth, AfterConfig, AfterTelemetry, AfterSpec,
       AfterDoctor, AfterSelf, AfterCompletion, AfterMcpServe, AfterMcpInstall
  <2> QED BY <1>1, <2>1, <2>2, <2>3, <2>4 DEF Origins, TelemetryLeaves
<1>7. ~PlacedGroup(<<"telemetry">>)
  BY <1>1, GroupLeaves DEF PlacedGroup, AfterAuth, AfterConfig, AfterTelemetry, AfterSelf, AfterMcpServe
<1>8. ASSUME ~Clash, (opts.end_user /\ ~opts.withdrawn)
      PROVE  ~resolve(reg, <<"telemetry">>) /\ <<"telemetry">> \notin reg.groups
  <2>1. push(<<"telemetry">>, "set") \in Under(<<"telemetry">>, TelemetryLeaves)
    BY DEF Under, TelemetryLeaves
  <2>2. push(<<"telemetry">>, "set") \in FrameworkNames
        /\ <<"telemetry">> \in Ancestors(push(<<"telemetry">>, "set"))
    BY <1>1, <1>3, <1>5, <1>8, <2>1, NamesAre, ParentIsAbove
  <2> QED BY <1>1, <1>7, <1>8, <2>2, NothingInTheWay, NoGroupTaken DEF resolve, Origins
<1>9. ASSUME stage' = NextStage(stage)
      PROVE  /\ \A p : Placed(p)' =>
                  Placed(p) \/ Clash \/ (~skip /\ p \in Under(<<"telemetry">>, TelemetryLeaves))
             /\ ~skip => /\ PlacedGroup(<<"telemetry">>)'
                         /\ \A p \in Under(<<"telemetry">>, TelemetryLeaves) : Placed(p)'
  <2>1. /\ \A p : Placed(p)' =>
             \/ Placed(p)
             \/ (opts.end_user /\ ~opts.withdrawn) /\ p \in Under(<<"telemetry">>, TelemetryLeaves)
        /\ (opts.end_user /\ ~opts.withdrawn) =>
             /\ PlacedGroup(<<"telemetry">>)'
             /\ \A p \in Under(<<"telemetry">>, TelemetryLeaves) : Placed(p)'
    BY <1>1, <1>9 DEF Placed, PlacedGroup,
       AfterChat, AfterAuth, AfterConfig, AfterTelemetry, AfterSpec,
       AfterDoctor, AfterSelf, AfterCompletion, AfterMcpServe, AfterMcpInstall
  <2>2. (opts.end_user /\ ~opts.withdrawn) /\ ~Clash => ~skip
    BY <1>8 DEF Withdrawn
  <2> QED BY <1>3, <2>1, <2>2
<1>10. ~skip /\ ~Clash => <<"telemetry">> \notin reg.groups
  BY <1>3, <1>8
<1> HIDE DEF skip
<1> QED BY <1>1, <1>2, <1>3, <1>4, <1>6, <1>9, <1>10, GroupStage

\* register_self_commands.
LEMMA SelfKeeps ==
    ASSUME AppInv, BuildSelf
    PROVE  AppInv'
<1> DEFINE skip == \/ opts.self = "none" \/ resolve(reg, push(opts.ns, "self"))
                   \/ push(opts.ns, "self") \in reg.groups
<1>1. BaseInv /\ Origins /\ opts \in OptSet /\ stage = "self" /\ stage \in AfterChecks /\ stage # "built"
      /\ UNCHANGED <<env, opts, mine, last, sees>> /\ SelfOfAnEndUser
      /\ NextStage(stage) = "completion"
  BY NextStages DEF BuildSelf, AtStage, AppInv, BaseInv, AfterChecks, AfterTelemetry, AfterSelf
<1>2. IF skip THEN Done(stage, reg) ELSE PutGroup(stage, push(opts.ns, "self"), SelfLeaves)
  BY <1>1 DEF BuildSelf, SelfLeaves
<1>3. /\ push(opts.ns, "self") \in Paths /\ SelfLeaves \in SUBSET Segments /\ SelfLeaves # {}
      /\ skip \in BOOLEAN
      /\ (~skip => (opts.self # "none" /\ opts.end_user))
  BY <1>1, GroupLeaves, Literals DEF SelfLeaves, OptSet, SelfOfAnEndUser
<1>4. "completion" \notin AfterCompletion
  BY DEF AfterCompletion
<1>5. \A p \in Under(push(opts.ns, "self"), SelfLeaves) :
        p \in Paths /\ leaf(p) \in SelfLeaves /\ Front(p) = push(opts.ns, "self")
  BY <1>3, PathFacts, UnderFacts
<1>6. ASSUME ~skip, NEW p \in Under(push(opts.ns, "self"), SelfLeaves)
      PROVE  p \in FrameworkNames /\ ~FrameworkCommand(p) /\ p # push(opts.ns, "completions")
  <2>1. p \in FrameworkNames
    BY <1>1, <1>3, <1>6, NamesAre
  <2>2. leaf(p) \in SelfLeaves /\ Front(p) = push(opts.ns, "self")
    BY <1>5, <1>6
  <2>3. leaf(push(opts.ns, "completions")) = "completions"
    BY <1>1, Literals, Shapes
  <2>4. ~Placed(p)
    BY <1>1, <2>2, PlacedShapes, GroupLeaves DEF AuthLeaves, ConfigLeaves, TelemetryLeaves, SelfLeaves,
       AfterChat, AfterAuth, AfterConfig, AfterTelemetry, AfterSpec,
       AfterDoctor, AfterSelf, AfterCompletion, AfterMcpServe, AfterMcpInstall
  <2> QED BY <1>1, <2>1, <2>2, <2>3, <2>4 DEF Origins, SelfLeaves
<1>7. ~PlacedGroup(push(opts.ns, "self"))
  BY <1>1, GroupLeaves DEF PlacedGroup, AfterAuth, AfterConfig, AfterTelemetry, AfterSelf, AfterMcpServe
<1>8. ASSUME ~Clash, (opts.self # "none" /\ opts.end_user)
      PROVE  ~resolve(reg, push(opts.ns, "self")) /\ push(opts.ns, "self") \notin reg.groups
  <2>1. push(push(opts.ns, "self"), "install") \in Under(push(opts.ns, "self"), SelfLeaves)
    BY DEF Under, SelfLeaves
  <2>2. push(push(opts.ns, "self"), "install") \in FrameworkNames
        /\ push(opts.ns, "self") \in Ancestors(push(push(opts.ns, "self"), "install"))
    BY <1>1, <1>3, <1>5, <1>8, <2>1, NamesAre, ParentIsAbove
  <2> QED BY <1>1, <1>7, <1>8, <2>2, NothingInTheWay, NoGroupTaken DEF resolve, Origins
<1>9. ASSUME stage' = NextStage(stage)
      PROVE  /\ \A p : Placed(p)' =>
                  Placed(p) \/ Clash \/ (~skip /\ p \in Under(push(opts.ns, "self"), SelfLeaves))
             /\ ~skip => /\ PlacedGroup(push(opts.ns, "self"))'
                         /\ \A p \in Under(push(opts.ns, "self"), SelfLeaves) : Placed(p)'
  <2>1. /\ \A p : Placed(p)' =>
             \/ Placed(p)
             \/ (opts.self # "none" /\ opts.end_user) /\ p \in Under(push(opts.ns, "self"), SelfLeaves)
        /\ (opts.self # "none" /\ opts.end_user) =>
             /\ PlacedGroup(push(opts.ns, "self"))'
             /\ \A p \in Under(push(opts.ns, "self"), SelfLeaves) : Placed(p)'
    BY <1>1, <1>9 DEF Placed, PlacedGroup,
       AfterChat, AfterAuth, AfterConfig, AfterTelemetry, AfterSpec,
       AfterDoctor, AfterSelf, AfterCompletion, AfterMcpServe, AfterMcpInstall
  <2>2. (opts.self # "none" /\ opts.end_user) /\ ~Clash => ~skip
    BY <1>8
  <2> QED BY <1>3, <2>1, <2>2
<1>10. ~skip /\ ~Clash => push(opts.ns, "self") \notin reg.groups
  BY <1>3, <1>8
<1> HIDE DEF skip
<1> QED BY <1>1, <1>2, <1>3, <1>4, <1>6, <1>9, <1>10, GroupStage

\* A step that registers one command, or is skipped.
LEMMA LeafStage ==
    ASSUME AppInv, stage \in AfterChecks, stage # "built", UNCHANGED <<env, opts, mine, last, sees>>,
           NEW path \in Paths, NEW cmd \in {Builtin, Categorised}, NEW skip \in BOOLEAN,
           IF skip \/ resolve(reg, path) THEN Done(stage, reg) ELSE Put(stage, reg, path, cmd, Err),
           NextStage(stage) \notin AfterCompletion,
           path \in FrameworkNames, ~FrameworkCommand(path), path # push(opts.ns, "completions"),
           skip => path = push(opts.ns, "doctor"),
           stage' = NextStage(stage) => Placed(path)' /\ \A p : Placed(p)' => Placed(p) \/ p = path
    PROVE  AppInv'
<1>1. BaseInv /\ Origins /\ reg \in RegistrySet /\ Unambiguous(reg) /\ opts \in OptSet
      /\ sees \in [mcp : SUBSET DOMAIN reg.cmds, completion : SUBSET DOMAIN reg.cmds]
  BY DEF AppInv, BaseInv
<1>2. cmd \in CommandSet /\ cmd.owner = "framework" /\ \A p : AliasPaths(p, cmd) = {}
  BY BuiltinFacts DEF AliasPaths
<1>3. stage' = NextStage(stage) => Snapshots'
  BY AfterNested DEF Snapshots
<1>4. CASE skip \/ resolve(reg, path)
  <2>1. stage' = NextStage(stage) /\ reg' = reg
    BY <1>4 DEF Done
  <2>2. Adds(reg, reg', {}, {}, cmd) /\ Unambiguous(reg')
    BY <1>1, <2>1, NothingAdded
  <2>3. \A p : Placed(p)' /\ p # push(opts.ns, "doctor") => Placed(p) \/ p \in {} \/ p \in DOMAIN reg.cmds
    BY <1>4, <2>1 DEF resolve
  <2> QED BY <1>1, <1>2, <1>3, <2>1, <2>2, <2>3, StepKeeps
<1>5. CASE ~(skip \/ resolve(reg, path))
  <2>1. Put(stage, reg, path, cmd, Err)
    BY <1>5
  <2>2. CASE register_at_error(reg, path, cmd) = "none"
    <3>1. stage' = NextStage(stage) /\ reg' = register_at(reg, path, cmd)
      BY <2>1, <2>2 DEF Put, Done
    <3>2. Adds(reg, reg', {path}, {}, cmd) /\ Unambiguous(reg')
      BY <1>1, <1>2, <2>2, <3>1, PutAdds
    <3>3. {path} \in SUBSET Paths /\ {} \in SUBSET Paths
      OBVIOUS
    <3>4. /\ \A p \in {path} : Placed(p)'
          /\ \A p : Placed(p)' /\ p # push(opts.ns, "doctor") =>
               Placed(p) \/ p \in {path} \/ p \in DOMAIN reg.cmds
      BY <3>1
    <3> QED BY <1>1, <1>2, <1>3, <3>1, <3>2, <3>3, <3>4, StepKeeps
  <2>3. CASE register_at_error(reg, path, cmd) # "none"
    <3>1. Err
      BY <2>1, <2>3 DEF Put
    <3>2. Clash
      BY <1>1, <1>2, <2>3, NameIsFree
    <3> QED BY <1>1, <3>1, <3>2, StopKeeps DEF FailedForAReason
  <2> QED BY <2>2, <2>3
<1> QED BY <1>4, <1>5

\* The command spec.
LEMMA SpecKeeps ==
    ASSUME AppInv, BuildSpec
    PROVE  AppInv'
<1>0. PICK path : path = push(opts.ns, "spec")
  OBVIOUS
<1> DEFINE skip == FALSE
<1>1. BaseInv /\ Origins /\ opts \in OptSet /\ stage = "spec" /\ stage \in AfterChecks /\ stage # "built"
      /\ UNCHANGED <<env, opts, mine, last, sees>> /\ NextStage(stage) = "doctor"
  BY NextStages DEF BuildSpec, AtStage, AppInv, BaseInv, AfterChecks, AfterTelemetry
<1>2. IF skip \/ resolve(reg, path) THEN Done(stage, reg) ELSE Put(stage, reg, path, Builtin, Err)
  BY <1>0, <1>1 DEF BuildSpec
<1>3. path \in Paths /\ leaf(path) = "spec" /\ leaf(push(opts.ns, "completions")) = "completions"
  BY <1>0, <1>1, Literals, Shapes
<1>4. "doctor" \notin AfterCompletion /\ skip \in BOOLEAN /\ Builtin \in {Builtin, Categorised}
  BY DEF AfterCompletion
<1>5. path \in FrameworkNames /\ ~FrameworkCommand(path) /\ path # push(opts.ns, "completions")
  <2>1. path \in FrameworkNames
    BY <1>0, <1>1, NamesAre
  <2>2. ~Placed(path)
    BY <1>1, <1>3, PlacedShapes DEF AuthLeaves, ConfigLeaves, TelemetryLeaves, SelfLeaves, AfterChat,
       AfterAuth, AfterConfig, AfterTelemetry, AfterSpec, AfterDoctor, AfterSelf, AfterCompletion,
       AfterMcpServe, AfterMcpInstall
  <2> QED BY <1>1, <1>3, <2>1, <2>2 DEF Origins
<1>6. stage' = NextStage(stage) => Placed(path)' /\ \A p : Placed(p)' => Placed(p) \/ p = path
  BY <1>0, <1>1 DEF Placed, AfterChat, AfterAuth, AfterConfig, AfterTelemetry, AfterSpec, AfterDoctor, AfterSelf,
     AfterCompletion, AfterMcpServe, AfterMcpInstall
<1>7. skip => path = push(opts.ns, "doctor")
  BY <1>0
<1> HIDE DEF skip
<1> QED BY <1>1, <1>2, <1>3, <1>4, <1>5, <1>6, <1>7, LeafStage

\* The command doctor.
LEMMA DoctorKeeps ==
    ASSUME AppInv, BuildDoctor
    PROVE  AppInv'
<1>0. PICK path : path = push(opts.ns, "doctor")
  OBVIOUS
<1> DEFINE skip == ~opts.checks
<1>1. BaseInv /\ Origins /\ opts \in OptSet /\ stage = "doctor" /\ stage \in AfterChecks /\ stage # "built"
      /\ UNCHANGED <<env, opts, mine, last, sees>> /\ NextStage(stage) = "self"
  BY NextStages DEF BuildDoctor, AtStage, AppInv, BaseInv, AfterChecks, AfterTelemetry
<1>2. IF skip \/ resolve(reg, path) THEN Done(stage, reg) ELSE Put(stage, reg, path, Categorised, Err)
  BY <1>0, <1>1 DEF BuildDoctor
<1>3. path \in Paths /\ leaf(path) = "doctor" /\ leaf(push(opts.ns, "completions")) = "completions"
  BY <1>0, <1>1, Literals, Shapes
<1>4. "self" \notin AfterCompletion /\ skip \in BOOLEAN /\ Categorised \in {Builtin, Categorised}
  BY DEF AfterCompletion
<1>5. path \in FrameworkNames /\ ~FrameworkCommand(path) /\ path # push(opts.ns, "completions")
  <2>1. path \in FrameworkNames
    BY <1>0, <1>1, NamesAre
  <2>2. ~Placed(path)
    BY <1>1, <1>3, PlacedShapes DEF AuthLeaves, ConfigLeaves, TelemetryLeaves, SelfLeaves, AfterChat,
       AfterAuth, AfterConfig, AfterTelemetry, AfterSpec, AfterDoctor, AfterSelf, AfterCompletion,
       AfterMcpServe, AfterMcpInstall
  <2> QED BY <1>1, <1>3, <2>1, <2>2 DEF Origins
<1>6. stage' = NextStage(stage) => Placed(path)' /\ \A p : Placed(p)' => Placed(p) \/ p = path
  BY <1>0, <1>1 DEF Placed, AfterChat, AfterAuth, AfterConfig, AfterTelemetry, AfterSpec, AfterDoctor, AfterSelf,
     AfterCompletion, AfterMcpServe, AfterMcpInstall
<1>7. skip => path = push(opts.ns, "doctor")
  BY <1>0
<1> HIDE DEF skip
<1> QED BY <1>1, <1>2, <1>3, <1>4, <1>5, <1>6, <1>7, LeafStage

\* The namespace of the built-in commands.
LEMMA NamespaceKeeps ==
    ASSUME AppInv, BuildNamespace
    PROVE  AppInv'
<1>1. BaseInv /\ Origins /\ opts \in OptSet /\ reg \in RegistrySet
      /\ stage = "namespace" /\ stage \in AfterChecks /\ stage # "built"
      /\ UNCHANGED <<env, opts, mine, last, sees>> /\ NextStage(stage) = "spec"
      /\ sees \in [mcp : SUBSET DOMAIN reg.cmds, completion : SUBSET DOMAIN reg.cmds]
  BY NextStages DEF BuildNamespace, AtStage, AppInv, BaseInv, AfterChecks, AfterTelemetry
<1>2. CASE opts.ns # <<>> /\ resolve(reg, opts.ns)
  <2>1. Err
    BY <1>2 DEF BuildNamespace
  <2>2. opts.ns \in AppCmds \/ Clash
    <3>1. CASE FrameworkCommand(opts.ns)
      <4>1. opts.ns \in FrameworkNames /\ opts.ns \in Paths
        BY <1>1, <3>1, PlacedNames, NameShape DEF Origins
      <4>2. push(opts.ns, "spec") \in FrameworkNames /\ opts.ns \in Ancestors(push(opts.ns, "spec"))
        BY <1>1, <4>1, NamesAre, Literals, Shapes, ParentIsAbove
      <4> QED BY <4>1, <4>2 DEF Clash
    <3>2. CASE ~FrameworkCommand(opts.ns)
      <4>1. reg.cmds[opts.ns].owner \in {"app", "framework"} /\ opts.ns \in DOMAIN reg.cmds
        BY <1>1, <1>2, RegistryFacts DEF resolve, CommandSet
      <4> QED BY <3>2, <4>1 DEF FrameworkCommand, AppCmds
    <3> QED BY <3>1, <3>2
  <2> QED BY <1>1, <2>1, <2>2, StopKeeps DEF FailedForAReason
<1>3. CASE ~(opts.ns # <<>> /\ resolve(reg, opts.ns))
  <2>1. stage' = NextStage(stage) /\ reg' = reg
    BY <1>1, <1>3 DEF BuildNamespace, Done
  <2>2. Adds(reg, reg', {}, {}, Builtin) /\ Unambiguous(reg')
    BY <1>1, <2>1, NothingAdded
  <2>3. \A p : Placed(p)' => Placed(p)
    BY <1>1, <2>1 DEF Placed, AfterChat, AfterAuth, AfterConfig, AfterTelemetry, AfterSpec, AfterDoctor,
       AfterSelf, AfterCompletion, AfterMcpServe, AfterMcpInstall
  <2>4. Snapshots'
    BY <1>1, <2>1 DEF Snapshots, AfterCompletion, AfterMcpServe
  <2> QED BY <1>1, <2>1, <2>2, <2>3, <2>4, BuiltinFacts, StepKeeps
<1> QED BY <1>2, <1>3

\* The chat command, over what the app registered.
LEMMA ChatTaken ==
    ASSUME BaseInv, Fresh, register_at_error(reg, <<"chat">>, ChatCommand) # "none",
           <<"chat">> \notin DOMAIN reg.cmds
    PROVE  Taken
<1> DEFINE f == <<"chat">>
<1>1. /\ reg \in RegistrySet /\ opts \in OptSet
      /\ f \in Seq(Segments) /\ f # <<>> /\ Ancestors(f) = {} /\ f[1] = "chat"
  BY Shapes DEF BaseInv, Paths
<1>2. AliasPaths(f, ChatCommand) = {}
  BY BuiltinFacts DEF AliasPaths
<1>3. AppCmds = DOMAIN reg.cmds /\ mine = reg.groups
  BY DEF Fresh, AppCmds
<1>4. \A p : p \in AppCmds \cup AppAliases \cup mine /\ p[1] = "chat" => Taken
  BY DEF Taken
<1>5. CASE f \in reg.groups
  BY <1>1, <1>3, <1>4, <1>5
<1>6. CASE path_has_descendants(reg, f)
  <2>1. PICK q \in DOMAIN reg.cmds \cup reg.groups : Below(f, q)
    BY <1>6 DEF path_has_descendants
  <2>2. q \in Seq(Segments)
    BY <1>1, RegistryFacts, PathFacts
  <2>3. q[1] = f[1]
    BY <1>1, <2>1, <2>2, Literals, FirstSegment
  <2> QED BY <1>1, <1>3, <1>4, <2>1, <2>3
<1>7. CASE existing_alias_for_path(reg, f)
  <2>1. f \in AppAliases
    BY <1>3, <1>7 DEF existing_alias_for_path, AppAliases
  <2> QED BY <1>1, <1>4, <2>1
<1>8. ~command_ancestor(reg, f) /\ ~existing_alias_ancestor(reg, f)
  BY <1>1 DEF command_ancestor, existing_alias_ancestor
<1> QED BY <1>2, <1>5, <1>6, <1>7, <1>8 DEF register_at_error

\* The command chat, the first registration: its error is a panic.
LEMMA ChatKeeps ==
    ASSUME AppInv, BuildChat
    PROVE  AppInv'
<1>1. BaseInv /\ Origins /\ Fresh /\ reg \in RegistrySet /\ Unambiguous(reg) /\ opts \in OptSet
      /\ stage = "chat" /\ stage \in AfterChecks /\ stage # "built"
      /\ UNCHANGED <<env, opts, mine, last, sees>> /\ NextStage(stage) = "auth"
      /\ sees \in [mcp : SUBSET DOMAIN reg.cmds, completion : SUBSET DOMAIN reg.cmds]
  BY NextStages DEF BuildChat, AtStage, AppInv, BaseInv, AfterChecks
<1>2. stage' = NextStage(stage) => Snapshots'
  BY <1>1 DEF Snapshots, AfterCompletion, AfterMcpServe
<1>3. stage' = NextStage(stage) => Placed(<<"chat">>)' /\ \A p : Placed(p)' => p = <<"chat">>
  BY <1>1 DEF Placed, AfterChat, AfterAuth, AfterConfig, AfterTelemetry, AfterSpec, AfterDoctor,
     AfterSelf, AfterCompletion, AfterMcpServe, AfterMcpInstall
<1>4. <<"chat">> \in Paths /\ ChatCommand \in CommandSet /\ ChatCommand.owner = "framework"
      /\ AliasPaths(<<"chat">>, ChatCommand) = {}
  BY <1>1, Shapes, BuiltinFacts DEF AliasPaths
<1>5. CASE resolve(reg, <<"chat">>)
  <2>1. stage' = NextStage(stage) /\ reg' = reg
    BY <1>1, <1>5 DEF BuildChat, Done
  <2>2. Adds(reg, reg', {}, {}, ChatCommand) /\ Unambiguous(reg')
    BY <1>1, <2>1, NothingAdded
  <2>3. \A p : Placed(p)' => p \in DOMAIN reg.cmds
    BY <1>3, <1>5, <2>1 DEF resolve
  <2> QED BY <1>1, <1>2, <1>4, <2>1, <2>2, <2>3, StepKeeps
<1>6. CASE ~resolve(reg, <<"chat">>)
  <2>1. Put(stage, reg, <<"chat">>, ChatCommand, Panic)
    BY <1>1, <1>6 DEF BuildChat
  <2>2. CASE register_at_error(reg, <<"chat">>, ChatCommand) = "none"
    <3>1. stage' = NextStage(stage) /\ reg' = register_at(reg, <<"chat">>, ChatCommand)
      BY <2>1, <2>2 DEF Put, Done
    <3>2. Adds(reg, reg', {<<"chat">>}, {}, ChatCommand) /\ Unambiguous(reg')
      BY <1>1, <1>4, <2>2, <3>1, PutAdds
    <3>3. {<<"chat">>} \in SUBSET Paths /\ {} \in SUBSET Paths
      BY <1>4
    <3>4. /\ \A p \in {<<"chat">>} : Placed(p)'
          /\ \A p : Placed(p)' => p \in {<<"chat">>}
      BY <1>3, <3>1
    <3> QED BY <1>1, <1>2, <1>4, <3>1, <3>2, <3>3, <3>4, StepKeeps
  <2>3. CASE register_at_error(reg, <<"chat">>, ChatCommand) # "none"
    <3>1. Panic
      BY <2>1, <2>3 DEF Put
    <3>2. Taken
      BY <1>1, <1>6, <2>3, ChatTaken DEF resolve
    <3>3. Clash
      <4>1. <<"chat">> \in FrameworkNames /\ leaf(<<"chat">>) = "chat"
            /\ leaf(push(opts.ns, "completions")) = "completions"
        BY <1>1, NamesAre, Shapes, Literals
      <4>2. ~FrameworkCommand(<<"chat">>)
        BY <1>6 DEF FrameworkCommand, resolve
      <4> QED BY <1>1, <1>4, <2>3, <4>1, <4>2, NameIsFree
    <3> QED BY <1>1, <3>1, <3>2, <3>3, StopKeeps
  <2> QED BY <2>2, <2>3
<1> QED BY <1>5, <1>6

\* The completion command.
LEMMA CompletionKeeps ==
    ASSUME AppInv, BuildCompletion
    PROVE  AppInv'
<1>0. PICK path : path = push(opts.ns, "completion")
  OBVIOUS
<1>1. BaseInv /\ Origins /\ reg \in RegistrySet /\ Unambiguous(reg) /\ opts \in OptSet
      /\ stage = "completion" /\ stage \in AfterChecks /\ stage # "built"
      /\ UNCHANGED <<env, opts, mine, last>> /\ NextStage(stage) = "mcp_serve"
      /\ sees \in [mcp : SUBSET DOMAIN reg.cmds, completion : SUBSET DOMAIN reg.cmds]
      /\ sees' = IF opts.completion THEN [sees EXCEPT !.completion = DOMAIN reg.cmds] ELSE sees
  BY NextStages DEF BuildCompletion, AtStage, AppInv, BaseInv, AfterChecks, AfterTelemetry, AfterSelf
<1>2. /\ sees' \in [mcp : SUBSET DOMAIN reg.cmds, completion : SUBSET DOMAIN reg.cmds]
      /\ opts.completion => sees'.completion = DOMAIN reg.cmds
  BY <1>1
<1>3. /\ path \in Paths /\ leaf(path) = "completion" /\ Front(path) = opts.ns
      /\ push(opts.ns, "completions") \in Paths /\ "completions" \in Segments
      /\ leaf(push(opts.ns, "completions")) = "completions"
  BY <1>0, <1>1, Literals, Shapes
<1>4. /\ Completion \in CommandSet /\ Completion.owner = "framework"
      /\ AliasPaths(path, Completion) = {push(opts.ns, "completions")}
  <2>1. Completion \in CommandSet /\ Completion.owner = "framework"
        /\ Completion.aliases = {<<"completions">>}
    BY BuiltinFacts
  <2>2. <<"completions">> \in Paths /\ Len(<<"completions">>) = 1 /\ <<"completions">>[1] = "completions"
    BY <2>1 DEF CommandSet
  <2>3. qualified_alias_path(path, <<"completions">>) = push(opts.ns, "completions")
    <3>1. PICK a \in Paths : a = <<"completions">> /\ Len(a) = 1 /\ a[1] = "completions"
      BY <2>2
    <3>2. qualified_alias_path(path, a) = push(Front(path), a[1])
      BY <1>3, <3>1, AliasFacts
    <3> QED BY <1>3, <3>1, <3>2
  <2> QED BY <2>1, <2>3 DEF AliasPaths
<1>5. stage' = NextStage(stage) =>
        \A p : Placed(p)' => Placed(p) \/ (opts.completion /\ p = path)
  BY <1>0, <1>1 DEF Placed, AfterChat, AfterAuth, AfterConfig, AfterTelemetry, AfterSpec, AfterDoctor,
     AfterSelf, AfterCompletion, AfterMcpServe, AfterMcpInstall
<1>6. CASE ~opts.completion
  <2>1. stage' = NextStage(stage) /\ reg' = reg
    BY <1>1, <1>6 DEF BuildCompletion, Done
  <2>2. Adds(reg, reg', {}, {}, Builtin) /\ Unambiguous(reg')
    BY <1>1, <2>1, NothingAdded
  <2>3. Snapshots'
    BY <1>1, <1>6, <2>1 DEF Snapshots, AfterMcpServe
  <2> QED BY <1>1, <1>2, <1>5, <1>6, <2>1, <2>2, <2>3, BuiltinFacts, StepKeeps
<1>7. CASE opts.completion /\ register_at_error(reg, path, Completion) = "none"
  <2> DEFINE s == register_at(reg, path, Completion)
  <2>1. stage' = NextStage(stage) /\ reg' = [s EXCEPT !.completion = path]
    BY <1>0, <1>1, <1>7 DEF BuildCompletion, Done, register_framework_completion_at
  <2>2. Adds(reg, s, {path}, {}, Completion) /\ Unambiguous(s) /\ path \notin DOMAIN reg.cmds
    BY <1>1, <1>3, <1>4, <1>7, PutAdds
  <2> HIDE DEF s
  <2>3. s \in RegistrySet /\ path \in Seq(Segments)
    BY <1>3, <2>2, PathFacts DEF Adds
  <2>4. reg' \in RegistrySet /\ reg'.cmds = s.cmds /\ reg'.groups = s.groups /\ reg'.completion = path
    BY <2>1, <2>3 DEF RegistrySet
  <2>5. Adds(reg, reg', {path}, {}, Completion)
    BY <2>2, <2>4 DEF Adds
  <2>6. Unambiguous(reg')
    BY <2>2, <2>4 DEF Unambiguous, Means
  <2>7. Placed(path)' /\ stage' \in AfterCompletion
    BY <1>0, <1>1, <1>7, <2>1 DEF Placed, AfterCompletion
  <2>8. Snapshots'
    <3>1. \A p \in DOMAIN reg'.cmds \ sees'.completion : p = path /\ FrameworkCommand(p)'
      <4>1. \A p \in DOMAIN reg'.cmds \ sees'.completion : p = path
        BY <1>2, <1>7, <2>5 DEF Adds
      <4>2. FrameworkCommand(path)'
        BY <1>1, <1>4, <2>2, <2>5, FrameworkAdds
      <4> QED BY <4>1, <4>2
    <3>2. stage' \notin AfterMcpServe
      BY <1>1, <2>1 DEF AfterMcpServe
    <3> QED BY <1>0, <1>1, <2>4, <3>1, <3>2 DEF Snapshots
  <2>9. {path} \in SUBSET Paths /\ {} \in SUBSET Paths
    BY <1>3
  <2>10. \A p \in {path} : Placed(p)' /\ AliasPaths(p, Completion) = {push(opts.ns, "completions")}
    BY <1>4, <2>7
  <2>11. \A p : Placed(p)' => Placed(p) \/ p \in {path}
    BY <1>5, <2>1
  <2> QED BY <1>1, <1>2, <1>4, <2>1, <2>5, <2>6, <2>7, <2>8, <2>9, <2>10, <2>11, StepKeeps
<1>8. CASE opts.completion /\ register_at_error(reg, path, Completion) # "none"
  <2>1. Err
    BY <1>0, <1>1, <1>8 DEF BuildCompletion
  <2>2. Clash
    <3> SUFFICES ASSUME ~Clash PROVE FALSE
      OBVIOUS
    <3> DEFINE f == push(opts.ns, "completions")
    <3>1. path \in FrameworkNames /\ f \in FrameworkNames
      BY <1>0, <1>1, <1>8, NamesAre
    <3>2. ~Placed(path) /\ ~Placed(f)
      BY <1>1, <1>3, PlacedShapes DEF AuthLeaves, ConfigLeaves, TelemetryLeaves, SelfLeaves,
         AfterCompletion, AfterMcpServe, AfterMcpInstall
    <3>3. ~FrameworkCommand(path) /\ ~FrameworkCommand(f)
      BY <1>1, <3>2 DEF Origins
    <3>4. Clear(reg, path) /\ ~path_has_descendants(reg, path)
      BY <1>1, <1>3, <3>1, <3>3, NameIsFree
    <3>5. f \notin DOMAIN reg.cmds /\ f \notin reg.groups
      BY <1>1, <3>1, <3>3, NothingInTheWay
    <3>6. ~path_has_descendants(reg, f)
      <4>1. \A q \in DOMAIN reg.cmds \cup reg.groups : q \in Seq(Segments)
        BY <1>1, RegistryFacts, PathFacts
      <4>2. \A q \in DOMAIN reg.cmds \cup reg.groups : ~Below(f, q)
        BY <1>1, <1>3, <3>1, <4>1, AncestorsFacts, NothingInTheWay
      <4> QED BY <4>2 DEF path_has_descendants
    <3>7. ~existing_alias_for_path(reg, f)
      <4> SUFFICES ASSUME NEW c \in DOMAIN reg.cmds, f \in AliasPaths(c, reg.cmds[c])
                   PROVE  FALSE
        BY DEF existing_alias_for_path
      <4>1. CASE FrameworkCommand(c)
        BY <1>1, <4>1 DEF Origins, AfterCompletion
      <4>2. CASE ~FrameworkCommand(c)
        <5>1. c \in AppCmds
          BY <1>1, <4>2, RegistryFacts DEF FrameworkCommand, AppCmds, CommandSet
        <5>2. f \in AppAliases
          BY <5>1 DEF AppAliases
        <5> QED BY <3>1, <5>2 DEF Clash
      <4> QED BY <4>1, <4>2
    <3>8. \A a \in AliasPaths(path, Completion) : ~AliasTaken(reg, a)
      BY <1>4, <3>5, <3>6, <3>7 DEF AliasTaken
    <3> QED BY <1>8, <3>4, <3>8 DEF register_at_error, Clear
  <2> QED BY <1>1, <1>2, <2>1, <2>2, StopKeeps DEF FailedForAReason
<1>9. opts.completion \in BOOLEAN
  BY <1>1 DEF OptSet
<1> QED BY <1>6, <1>7, <1>8, <1>9

\* The first segment of what the framework adds.
LEMMA FirstOfPlaced ==
    ASSUME opts \in OptSet, ~(opts.ns # <<>> /\ opts.ns[1] = "mcp")
    PROVE  /\ \A p : Placed(p) => p \in McpNames \/ p[1] # "mcp"
           /\ push(opts.ns, "self")[1] # "mcp"
<1>1. /\ AuthLeaves \in SUBSET Segments /\ ConfigLeaves \in SUBSET Segments
      /\ TelemetryLeaves \in SUBSET Segments /\ SelfLeaves \in SUBSET Segments
      /\ "spec" \in Segments /\ "doctor" \in Segments /\ "completion" \in Segments /\ "self" \in Segments
      /\ opts.ns \in Seq(Segments)
  BY Literals, Shapes
<1>2. \A x \in Segments : push(opts.ns, x)[1] = x \/ push(opts.ns, x)[1] # "mcp"
  BY <1>1, FirstSegment
<1>3. push(opts.ns, "self")[1] # "mcp" /\ push(opts.ns, "spec")[1] # "mcp"
      /\ push(opts.ns, "doctor")[1] # "mcp" /\ push(opts.ns, "completion")[1] # "mcp"
  BY <1>1, <1>2
<1>4. ASSUME NEW g \in Seq(Segments), NEW leaves \in SUBSET Segments, NEW p \in Under(g, leaves),
             g # <<>>, g[1] # "mcp"
      PROVE  p[1] # "mcp"
  BY <1>4, FirstSegment DEF Under
<1>5. /\ <<"auth">> \in Seq(Segments) /\ <<"auth">> # <<>> /\ <<"auth">>[1] # "mcp"
      /\ <<"config">> \in Seq(Segments) /\ <<"config">> # <<>> /\ <<"config">>[1] # "mcp"
      /\ <<"telemetry">> \in Seq(Segments) /\ <<"telemetry">> # <<>> /\ <<"telemetry">>[1] # "mcp"
      /\ <<"chat">>[1] # "mcp"
  <2>1. <<"auth">> \in Seq(Segments) /\ <<"config">> \in Seq(Segments) /\ <<"telemetry">> \in Seq(Segments)
    BY Shapes
  <2>2. \A e : <<e>> # <<>> /\ <<e>>[1] = e
    OBVIOUS
  <2> QED BY <2>1, <2>2
<1>6. push(opts.ns, "self") \in Seq(Segments) /\ push(opts.ns, "self") # <<>>
  <2>1. push(opts.ns, "self") \in Paths
    BY <1>1, PushFacts
  <2> QED BY <2>1 DEF Paths
<1>7. /\ \A p \in Under(<<"auth">>, AuthLeaves) : p[1] # "mcp"
      /\ \A p \in Under(<<"config">>, ConfigLeaves) : p[1] # "mcp"
      /\ \A p \in Under(<<"telemetry">>, TelemetryLeaves) : p[1] # "mcp"
      /\ \A p \in Under(push(opts.ns, "self"), SelfLeaves) : p[1] # "mcp"
  BY <1>1, <1>3, <1>4, <1>5, <1>6
<1> QED BY <1>3, <1>5, <1>7 DEF Placed, McpNames

\* Where neither the app nor the namespace has a name that begins with mcp,
\* the commands under mcp can be registered.
LEMMA McpIsFree ==
    ASSUME BaseInv, Origins, ~Taken, NEW f \in McpNames, ~FrameworkCommand(f)
    PROVE  register_at_error(reg, f, Builtin) = "none" /\ <<"mcp">> \notin DOMAIN reg.cmds
<1>1. /\ reg \in RegistrySet /\ opts \in OptSet /\ opts.ns \in Seq(Segments)
      /\ f \in Paths /\ f \in Seq(Segments) /\ Front(f) = <<"mcp">> /\ f # <<>>
      /\ leaf(f) \in {"serve", "install", "list"} /\ f[1] = "mcp"
      /\ <<"mcp">> \in Paths /\ <<"mcp">>[1] = "mcp" /\ Ancestors(<<"mcp">>) = {} /\ leaf(<<"mcp">>) = "mcp"
  <2>1. reg \in RegistrySet /\ opts \in OptSet /\ opts.ns \in Seq(Segments)
    BY Shapes DEF BaseInv
  <2>2. f \in Paths /\ Front(f) = <<"mcp">> /\ leaf(f) \in {"serve", "install", "list"} /\ f[1] = "mcp"
    <3>1. \A d, e : <<d, e>>[1] = d
      OBVIOUS
    <3>2. f[1] = "mcp"
      BY <3>1 DEF McpNames
    <3>3. f \in Paths /\ Front(f) = <<"mcp">>
      BY <2>1, Shapes
    <3>4. leaf(f) \in {"serve", "install", "list"}
      BY <2>1, Shapes DEF McpNames
    <3> QED BY <3>2, <3>3, <3>4
  <2>3. f \in Seq(Segments) /\ f # <<>>
    <3>1. \A p \in Paths : p \in Seq(Segments) /\ p # <<>>
      BY DEF Paths
    <3> QED BY <2>2, <3>1
  <2>4. <<"mcp">> \in Paths /\ <<"mcp">>[1] = "mcp" /\ Ancestors(<<"mcp">>) = {} /\ leaf(<<"mcp">>) = "mcp"
    BY <2>1, Shapes
  <2> QED BY <2>1, <2>2, <2>3, <2>4
<1>2. \A p : p \in AppCmds \cup AppAliases \cup mine => p[1] # "mcp"
  BY DEF Taken
<1>3. ~(opts.ns # <<>> /\ opts.ns[1] = "mcp")
  BY DEF Taken
<1>4. \A c \in DOMAIN reg.cmds : c \in AppCmds \/ FrameworkCommand(c)
  BY <1>1, RegistryFacts DEF CommandSet, AppCmds, FrameworkCommand
<1>5. \A p : FrameworkCommand(p) => p \in McpNames \/ p[1] # "mcp"
  BY <1>1, <1>3, FirstOfPlaced DEF Origins
<1>6. \A g \in reg.groups : g = <<"mcp">> \/ g[1] # "mcp"
  <2>1. ASSUME NEW g \in reg.groups, g \notin mine
        PROVE  g = <<"mcp">> \/ g[1] # "mcp"
    <3>1. g \in {<<"auth">>, <<"config">>, <<"telemetry">>, <<"mcp">>, push(opts.ns, "self")}
      BY <1>1, <2>1, PlacedNames DEF Origins
    <3>2. push(opts.ns, "self")[1] # "mcp"
      BY <1>1, <1>3, FirstOfPlaced
    <3>3. <<"auth">>[1] # "mcp" /\ <<"config">>[1] # "mcp" /\ <<"telemetry">>[1] # "mcp"
      OBVIOUS
    <3> QED BY <3>1, <3>2, <3>3
  <2> QED BY <1>2, <2>1
<1>7. \A c \in DOMAIN reg.cmds : \A a \in AliasPaths(c, reg.cmds[c]) :
        a[1] # "mcp" \/ a = push(opts.ns, "completions")
  <2>1. \A c \in AppCmds : \A a \in AliasPaths(c, reg.cmds[c]) : a \in AppAliases
    BY DEF AppAliases
  <2> QED BY <1>2, <1>4, <2>1 DEF Origins
<1>8. leaf(push(opts.ns, "completions")) = "completions"
  BY <1>1, Literals, Shapes
<1>9. <<"mcp">> \notin DOMAIN reg.cmds
  <2>1. <<"mcp">> \notin McpNames
    BY <1>1, Shapes DEF McpNames
  <2> QED BY <1>1, <1>2, <1>4, <2>1, <1>5
<1>10. \A q : q \in Ancestors(f) => q = <<"mcp">>
  <2>1. ASSUME NEW q \in Ancestors(f)
        PROVE  q = <<"mcp">>
    <3>1. q \in Paths /\ q \in Seq(Segments) /\ Below(q, f)
      BY <1>1, AncestorsFacts, PathFacts
    <3>2. f = push(<<"mcp">>, leaf(f)) /\ leaf(f) \in Segments /\ <<"mcp">> \in Seq(Segments)
      BY <1>1, PathFacts
    <3>3. q = <<"mcp">> \/ Below(q, <<"mcp">>)
      BY <3>1, <3>2, BelowPush
    <3>4. ~Below(q, <<"mcp">>)
      BY <1>1, <3>1, <3>2, AncestorsFacts
    <3> QED BY <3>3, <3>4
  <2> QED BY <2>1
<1>11. f \notin DOMAIN reg.cmds \cup reg.groups
  BY <1>1, <1>2, <1>4, <1>6
<1>12. ~command_ancestor(reg, f)
  BY <1>9, <1>10 DEF command_ancestor
<1>13. ~path_has_descendants(reg, f)
  <2> SUFFICES ASSUME NEW q \in DOMAIN reg.cmds \cup reg.groups, Below(f, q)
               PROVE  FALSE
    BY DEF path_has_descendants
  <2>1. q \in Paths /\ q \in Seq(Segments)
    BY <1>1, RegistryFacts, PathFacts
  <2>2. q[1] = "mcp"
    BY <1>1, <2>1, Literals, FirstSegment
  <2>3. q \notin McpNames /\ q # <<"mcp">>
    <3>1. f \in Ancestors(q)
      BY <1>1, <2>1, AncestorsFacts
    <3>2. q \in McpNames => Front(q) = <<"mcp">> /\ leaf(q) \in Segments /\ q = push(<<"mcp">>, leaf(q))
      BY <1>1, <2>1, Shapes, PathFacts
    <3>3. q \in McpNames => f = <<"mcp">> \/ Below(f, <<"mcp">>)
      BY <1>1, <3>2, PathFacts, BelowPush
    <3>4. ~Below(f, <<"mcp">>) /\ f # <<"mcp">>
      BY <1>1, PathFacts, AncestorsFacts
    <3> QED BY <1>1, <3>1, <3>3, <3>4
  <2> QED BY <1>2, <1>4, <1>5, <1>6, <2>2, <2>3
<1>14. ~existing_alias_for_path(reg, f)
  BY <1>1, <1>7, <1>8 DEF existing_alias_for_path
<1>15. ~existing_alias_ancestor(reg, f)
  BY <1>1, <1>7, <1>8, <1>10 DEF existing_alias_for_path, existing_alias_ancestor
<1>16. AliasPaths(f, Builtin) = {}
  BY BuiltinFacts DEF AliasPaths
<1> QED BY <1>9, <1>11, <1>12, <1>13, <1>14, <1>15, <1>16 DEF register_at_error

\* The group mcp, where it can be registered.
LEMMA McpGroup ==
    ASSUME reg \in RegistrySet, Unambiguous(reg), opts \in OptSet, NEW r, r \in {reg, WithMcpGroup(reg)}
    PROVE  /\ r \in RegistrySet /\ Unambiguous(r) /\ r.cmds = reg.cmds /\ r.completion = reg.completion
           /\ \E G \in {{}, {<<"mcp">>}} : r.groups = reg.groups \cup G
           /\ \A f \in McpNames : register_at_error(reg, f, Builtin) = "none" =>
                                  register_at_error(r, f, Builtin) = "none"
<1>1. <<"mcp">> \in Paths /\ \A f \in McpNames : f \in Paths /\ Front(f) = <<"mcp">>
  BY Shapes
<1>2. CASE r = reg
  BY <1>2
<1>3. CASE r # reg
  <2>1. register_group_error(reg, <<"mcp">>) = "none" /\ r = register_group(reg, <<"mcp">>)
    BY <1>3 DEF WithMcpGroup
  <2>2. /\ r \in RegistrySet /\ Unambiguous(r) /\ r.cmds = reg.cmds /\ r.completion = reg.completion
        /\ r.groups = reg.groups \cup {<<"mcp">>}
    BY <1>1, <2>1, GroupKeeps
  <2>3. \A f \in McpNames : register_at_error(reg, f, Builtin) = "none" =>
                            register_at_error(r, f, Builtin) = "none"
    BY <1>1, <2>1, FreeUnderGroup
  <2> QED BY <2>2, <2>3
<1> QED BY <1>2, <1>3

\* mcp serve, and the snapshot it works on.
LEMMA McpServeKeeps ==
    ASSUME AppInv, BuildMcpServe
    PROVE  AppInv'
<1>0. PICK f : f = <<"mcp", "serve">>
  OBVIOUS
<1> DEFINE wanted == opts.mcp /\ ~resolve(reg, <<"mcp">>) /\ ~resolve(reg, <<"mcp", "serve">>)
<1>1. BaseInv /\ Origins /\ Snapshots /\ reg \in RegistrySet /\ Unambiguous(reg) /\ opts \in OptSet
      /\ stage = "mcp_serve" /\ stage \in AfterChecks /\ stage # "built" /\ stage \in AfterCompletion
      /\ UNCHANGED <<env, opts, mine, last>> /\ NextStage(stage) = "mcp_install"
      /\ sees \in [mcp : SUBSET DOMAIN reg.cmds, completion : SUBSET DOMAIN reg.cmds]
      /\ sees' = IF wanted THEN [sees EXCEPT !.mcp = DOMAIN reg.cmds] ELSE sees
  BY NextStages DEF BuildMcpServe, AtStage, AppInv, BaseInv, AfterChecks, AfterTelemetry, AfterSelf,
     AfterCompletion
<1>2. /\ sees' \in [mcp : SUBSET DOMAIN reg.cmds, completion : SUBSET DOMAIN reg.cmds]
      /\ sees'.completion = sees.completion /\ (wanted => sees'.mcp = DOMAIN reg.cmds)
  BY <1>1
<1>3. f \in McpNames /\ f \in Paths /\ leaf(f) = "serve" /\ Front(f) = <<"mcp">> /\ <<"mcp">> \in Paths
      /\ f # push(opts.ns, "completions") /\ {f} \in SUBSET Paths
  <2>1. leaf(push(opts.ns, "completions")) = "completions"
    BY <1>1, Literals, Shapes
  <2>2. f \in McpNames /\ f \in Paths /\ leaf(f) = "serve" /\ Front(f) = <<"mcp">> /\ <<"mcp">> \in Paths
    BY <1>0, <1>1, Shapes DEF McpNames
  <2> QED BY <2>1, <2>2
<1>4. ~FrameworkCommand(f)
  <2>1. ~Placed(f)
    BY <1>1, <1>3, PlacedShapes DEF AuthLeaves, ConfigLeaves, TelemetryLeaves, SelfLeaves,
       AfterMcpServe, AfterMcpInstall
  <2> QED BY <1>1, <2>1 DEF Origins
<1>5. stage' = NextStage(stage) =>
        /\ \A p : Placed(p)' => Placed(p) \/ (opts.mcp /\ p = f)
        /\ opts.mcp => Placed(f)'
        /\ PlacedGroup(<<"mcp">>)' /\ stage' \in AfterMcpServe /\ stage' \in AfterCompletion
  BY <1>0, <1>1 DEF Placed, PlacedGroup, AfterChat, AfterAuth, AfterConfig, AfterTelemetry, AfterSpec,
     AfterDoctor, AfterSelf, AfterCompletion, AfterMcpServe, AfterMcpInstall
<1>6. opts.mcp => f \in FrameworkNames /\ <<"mcp">> \in Ancestors(f)
  BY <1>0, <1>1, <1>3, NamesAre, ParentIsAbove
<1>7. CASE ~wanted
  <2>1. stage' = NextStage(stage) /\ reg' = reg
    BY <1>1, <1>7 DEF BuildMcpServe, Done
  <2>2. Adds(reg, reg', {}, {}, Builtin) /\ Unambiguous(reg')
    BY <1>1, <2>1, NothingAdded
  <2>3. ~Clash => \A p : Placed(p)' => Placed(p) \/ p \in DOMAIN reg.cmds
    BY <1>0, <1>1, <1>5, <1>6, <1>7, <2>1, NothingInTheWay DEF resolve
  <2>4. Snapshots'
    <3>1. ~FrameworkCommand(f)' /\ \A p : FrameworkCommand(p)' <=> FrameworkCommand(p)
      BY <1>4, <2>1 DEF FrameworkCommand
    <3> QED BY <1>0, <1>1, <1>2, <2>1, <3>1 DEF Snapshots
  <2> QED BY <1>1, <1>2, <2>1, <2>2, <2>3, <2>4, BuiltinFacts, StepKeeps
<1>8. CASE wanted
  <2>1. PICK r : r = WithMcpGroup(reg)
    OBVIOUS
  <2>2. Put("mcp_serve", r, f, Builtin, Panic)
    BY <1>0, <1>8, <2>1 DEF BuildMcpServe
  <2>3. /\ r \in RegistrySet /\ Unambiguous(r) /\ r.cmds = reg.cmds /\ r.completion = reg.completion
        /\ \E G \in {{}, {<<"mcp">>}} : r.groups = reg.groups \cup G
        /\ register_at_error(reg, f, Builtin) = "none" => register_at_error(r, f, Builtin) = "none"
    BY <1>1, <1>3, <2>1, McpGroup
  <2>4. CASE register_at_error(r, f, Builtin) = "none"
    <3>1. stage' = NextStage(stage) /\ reg' = register_at(r, f, Builtin)
      BY <1>1, <2>2, <2>4 DEF Put, Done
    <3>2. /\ Adds(r, reg', {f}, {}, Builtin) /\ Unambiguous(reg') /\ f \notin DOMAIN r.cmds
          /\ reg'.completion = r.completion
      BY <1>3, <2>3, <2>4, <3>1, BuiltinFacts, PutAdds
    <3>3. PICK G \in {{}, {<<"mcp">>}} : r.groups = reg.groups \cup G
      BY <2>3
    <3>4. Adds(reg, reg', {f}, G, Builtin)
      BY <2>3, <3>2, <3>3 DEF Adds
    <3>5. Snapshots'
      <4>1. \A p : FrameworkCommand(p)' <=> FrameworkCommand(p) \/ p = f
        <5>1. f \notin DOMAIN reg.cmds
          BY <2>3, <3>2
        <5> QED BY <1>1, <3>4, <5>1, BuiltinFacts, FrameworkAdds
      <4>2. DOMAIN reg'.cmds = DOMAIN reg.cmds \cup {f}
        BY <3>4 DEF Adds
      <4>3. reg'.completion = reg.completion
        BY <2>3, <3>2
      <4> QED BY <1>1, <1>2, <1>3, <1>8, <4>1, <4>2, <4>3 DEF Snapshots
    <3>6. /\ \A p \in {f} : Placed(p)' /\ AliasPaths(p, Builtin) = {}
          /\ \A g \in G : PlacedGroup(g)'
          /\ \A p : Placed(p)' => Placed(p) \/ p \in {f}
      BY <1>5, <1>8, <3>1, <3>3, BuiltinFacts DEF AliasPaths
    <3>7. G \in SUBSET Paths
      BY <1>3, <3>3
    <3> QED BY <1>1, <1>2, <1>3, <3>1, <3>2, <3>4, <3>5, <3>6, <3>7, BuiltinFacts, StepKeeps
  <2>5. CASE register_at_error(r, f, Builtin) # "none"
    <3>1. Panic
      BY <2>2, <2>5 DEF Put
    <3>2. Taken
      BY <1>1, <1>3, <1>4, <2>3, <2>5, McpIsFree
    <3>3. Clash
      <4>1. AliasPaths(f, Builtin) = {}
        BY BuiltinFacts DEF AliasPaths
      <4> QED BY <1>1, <1>3, <1>4, <1>6, <1>8, <2>3, <2>5, <4>1, NameIsFree
    <3> QED BY <1>1, <1>2, <3>1, <3>2, <3>3, StopKeeps
  <2> QED BY <2>4, <2>5
<1> QED BY <1>7, <1>8

\* mcp install and mcp list.
LEMMA McpInstallKeeps ==
    ASSUME AppInv, BuildMcpInstall
    PROVE  AppInv'
<1> DEFINE two == {<<"mcp", "install">>, <<"mcp", "list">>}
<1>0. PICK new : new = two \ DOMAIN reg.cmds
  OBVIOUS
<1>1. BaseInv /\ Origins /\ Snapshots /\ reg \in RegistrySet /\ Unambiguous(reg) /\ opts \in OptSet
      /\ stage = "mcp_install" /\ stage \in AfterChecks /\ stage # "built" /\ stage \in AfterCompletion
      /\ stage \in AfterMcpServe
      /\ UNCHANGED <<env, opts, mine, last, sees>> /\ NextStage(stage) = "clap"
      /\ sees \in [mcp : SUBSET DOMAIN reg.cmds, completion : SUBSET DOMAIN reg.cmds]
  BY NextStages DEF BuildMcpInstall, AtStage, AppInv, BaseInv, AfterChecks, AfterTelemetry, AfterSelf,
     AfterCompletion, AfterMcpServe
<1>2. PICK r : r = IF resolve(reg, <<"mcp">>) THEN reg ELSE WithMcpGroup(reg)
  OBVIOUS
<1>3. /\ r \in RegistrySet /\ Unambiguous(r) /\ r.cmds = reg.cmds /\ r.completion = reg.completion
      /\ \E G \in {{}, {<<"mcp">>}} : r.groups = reg.groups \cup G
      /\ \A f \in McpNames : register_at_error(reg, f, Builtin) = "none" =>
                             register_at_error(r, f, Builtin) = "none"
  <2>1. r \in {reg, WithMcpGroup(reg)}
    BY <1>2
  <2> QED BY <1>1, <2>1, McpGroup
<1>4. /\ new \in SUBSET Paths /\ new \subseteq McpNames /\ <<"mcp">> \in Paths /\ <<"mcp">> \in Seq(Segments)
      /\ \A p \in new : /\ Front(p) = <<"mcp">> /\ ~FrameworkCommand(p) /\ p \in FrameworkNames
                        /\ p # push(opts.ns, "completions") /\ p # <<"mcp", "serve">>
  <2>1. leaf(push(opts.ns, "completions")) = "completions"
    BY <1>1, Literals, Shapes
  <2>2. \A p \in two : p \in Paths /\ Front(p) = <<"mcp">> /\ leaf(p) \in {"install", "list"} /\ p \in McpNames
    BY <1>1, Shapes DEF McpNames
  <2>3. <<"mcp">> \in Paths /\ leaf(<<"mcp", "serve">>) = "serve" /\ <<"mcp">> \in Seq(Segments)
    BY <1>1, Shapes
  <2>4. \A p \in two : p \in FrameworkNames
    BY <1>1, NamesAre
  <2> QED BY <1>0, <2>1, <2>2, <2>3, <2>4 DEF FrameworkCommand
<1>5. /\ (\E p \in new : register_at_error(r, p, Builtin) # "none") => Panic
      /\ (\A p \in new : register_at_error(r, p, Builtin) = "none") => Done(stage, WithAt(r, new, Builtin))
  BY <1>0, <1>1, <1>2 DEF BuildMcpInstall, WithAt
<1>6. CASE \A p \in new : register_at_error(r, p, Builtin) = "none"
  <2>1. stage' = NextStage(stage) /\ reg' = WithAt(r, new, Builtin)
    BY <1>5, <1>6 DEF Done
  <2>2. /\ Adds(r, reg', new, {}, Builtin) /\ Unambiguous(reg') /\ reg'.completion = r.completion
    BY <1>3, <1>4, <1>6, <2>1, LeavesAdd
  <2>3. PICK G \in {{}, {<<"mcp">>}} : r.groups = reg.groups \cup G
    BY <1>3
  <2>4. Adds(reg, reg', new, G, Builtin)
    BY <1>3, <2>2, <2>3 DEF Adds
  <2>5. Snapshots'
    <3>1. \A p : FrameworkCommand(p)' <=> FrameworkCommand(p) \/ p \in new \ DOMAIN reg.cmds
      BY <1>1, <2>4, BuiltinFacts, FrameworkAdds
    <3>2. DOMAIN reg'.cmds = DOMAIN reg.cmds \cup new
      BY <2>4 DEF Adds
    <3>3. reg'.completion = reg.completion /\ new \cap DOMAIN reg.cmds = {}
      BY <1>0, <1>3, <2>2
    <3> QED BY <1>1, <1>4, <3>1, <3>2, <3>3 DEF Snapshots
  <2>6. /\ \A p \in new : Placed(p)' /\ AliasPaths(p, Builtin) = {}
        /\ \A g \in G : PlacedGroup(g)'
        /\ \A p : Placed(p)' => Placed(p) \/ p \in new \/ p \in DOMAIN reg.cmds
    <3>1. stage' \in AfterMcpInstall /\ stage' \in AfterMcpServe
      BY <1>1, <2>1 DEF AfterMcpInstall, AfterMcpServe
    <3>2. \A p \in new : Placed(p)'
      BY <1>0, <3>1 DEF Placed
    <3>3. \A g \in G : PlacedGroup(g)'
      BY <2>3, <3>1 DEF PlacedGroup
    <3>4. \A p : Placed(p)' => Placed(p) \/ p \in two
      BY <1>1, <2>1 DEF Placed, AfterChat, AfterAuth, AfterConfig, AfterTelemetry, AfterSpec,
         AfterDoctor, AfterSelf, AfterCompletion, AfterMcpServe, AfterMcpInstall
    <3> QED BY <1>0, <3>2, <3>3, <3>4, BuiltinFacts DEF AliasPaths
  <2>7. G \in SUBSET Paths
    BY <1>4, <2>3
  <2> QED BY <1>1, <1>4, <2>1, <2>2, <2>4, <2>5, <2>6, <2>7, BuiltinFacts, StepKeeps
<1>7. CASE \E p \in new : register_at_error(r, p, Builtin) # "none"
  <2>1. Panic
    BY <1>5, <1>7
  <2>2. PICK p \in new : register_at_error(reg, p, Builtin) # "none"
    BY <1>3, <1>4, <1>7
  <2>3. Taken
    BY <1>1, <1>4, <2>2, McpIsFree
  <2>4. Clash
    <3>1. AliasPaths(p, Builtin) = {}
      BY BuiltinFacts DEF AliasPaths
    <3> QED BY <1>1, <1>4, <2>2, <3>1, NameIsFree
  <2> QED BY <1>1, <2>1, <2>3, <2>4, StopKeeps
<1> QED BY <1>6, <1>7

\* The last step registers nothing.
LEMMA ClapKeeps ==
    ASSUME AppInv, BuildClap
    PROVE  AppInv'
<1> DEFINE declared == UNION {reg.cmds[p].env : p \in DOMAIN reg.cmds}
           all == env \cup declared
           bad == (\E e \in declared : EmptyEntry(e)) \/ ~Agree(all) \/ (~Withdrawn /\ opts.keys = "blank")
<1>1. BaseInv /\ Origins /\ Got /\ Deployed /\ SelfOfAnEndUser /\ Snapshots /\ opts \in OptSet
      /\ reg \in RegistrySet
      /\ stage = "clap" /\ stage \in AfterChecks /\ stage # "built" /\ NextStage(stage) = "built"
      /\ UNCHANGED <<opts, mine, last, sees, reg>>
      /\ sees \in [mcp : SUBSET DOMAIN reg.cmds, completion : SUBSET DOMAIN reg.cmds]
  BY NextStages DEF BuildClap, Done, Err, AppInv, BaseInv, AfterChecks, AfterTelemetry, AfterSelf
<1>2. IF bad THEN stage' = "failed" /\ env' = env ELSE stage' = "built"
  BY <1>1 DEF BuildClap, Err, Done
<1>3. CASE ~bad
  <2>1. stage' = NextStage(stage) /\ stage' = "built"
    BY <1>1, <1>2, <1>3
  <2>2. Adds(reg, reg', {}, {}, Builtin) /\ Unambiguous(reg')
    BY <1>1, NothingAdded
  <2>3. \A p : Placed(p)' => Placed(p)
    BY <1>1, <2>1 DEF Placed, AfterChat, AfterAuth, AfterConfig, AfterTelemetry, AfterSpec,
       AfterDoctor, AfterSelf, AfterCompletion, AfterMcpServe, AfterMcpInstall
  <2>4. Snapshots'
    BY <1>1, <2>1 DEF Snapshots, FrameworkCommand, AfterCompletion, AfterMcpServe
  <2> QED BY <1>1, <2>1, <2>2, <2>3, <2>4, BuiltinFacts, StepKeeps
<1>4. CASE bad
  <2>1. \A p \in DOMAIN reg.cmds : p \in AppCmds \/ reg.cmds[p].env \subseteq ChatVariables
    BY <1>1, RegistryFacts DEF AppCmds, CommandSet
  <2>2. declared \subseteq Declared \cup ChatVariables
    BY <2>1 DEF Declared
  <2>3. \A e \in ChatVariables : ~EmptyEntry(e)
    BY DEF ChatVariables, EmptyEntry
  <2>4. ~Agree(all) => ~Agree(env \cup Declared \cup ChatVariables)
    BY <2>2 DEF Agree
  <2>5. FailedForAReason
    BY <1>4, <2>2, <2>3, <2>4 DEF FailedForAReason, VariablesRefused
  <2>6. Err /\ env' = env
    BY <1>1, <1>2, <1>4 DEF Err
  <2> QED BY <1>1, <2>5, <2>6, StopKeeps
<1> QED BY <1>3, <1>4

\* A call on the builder that sets an option.
LEMMA OptionKeeps ==
    ASSUME AppInv, stage = "building", UNCHANGED <<reg, stage, mine, sees, last>>, opts' \in OptSet
    PROVE  AppInv'
<1>1. BaseInv'
  BY DEF AppInv, BaseInv
<1>2. LastInv'
  BY DEF AppInv, LastInv
<1>3. Fresh'
  BY DEF AppInv, Fresh
<1> QED BY <1>1, <1>2, <1>3, AfterNested DEF AppInv

\* The app's commands.
LEMMA RegisterCommandKeeps ==
    ASSUME AppInv, register_command_at
    PROVE  AppInv'
<1>1. /\ stage = "building" /\ UNCHANGED <<opts, mine, sees, last>>
      /\ reg \in RegistrySet /\ Unambiguous(reg) /\ opts \in OptSet /\ mine \subseteq reg.groups
      /\ sees \in [mcp : SUBSET DOMAIN reg.cmds, completion : SUBSET DOMAIN reg.cmds]
      /\ Fresh
  BY DEF register_command_at, Call, AppInv, BaseInv
<1>2. LastInv'
  BY <1>1 DEF AppInv, LastInv
<1>3. PICK path \in AppPaths : \E cmd \in CommandsAt[path] :
        IF register_at_error(reg, path, cmd) = "none"
        THEN reg' = register_at(reg, path, cmd) /\ UNCHANGED stage
        ELSE stage' = "refused" /\ UNCHANGED reg
  BY DEF register_command_at
<1>4. PICK cmd \in CommandsAt[path] :
        IF register_at_error(reg, path, cmd) = "none"
        THEN reg' = register_at(reg, path, cmd) /\ UNCHANGED stage
        ELSE stage' = "refused" /\ UNCHANGED reg
  BY <1>3
<1>5. path \in Paths /\ cmd \in CommandSet /\ cmd.owner = "app"
  <2>1. cmd \in AppCommands /\ path \in Paths
    BY AppAssumption
  <2> QED BY <2>1 DEF AppCommands, CommandSet
<1>6. CASE register_at_error(reg, path, cmd) = "none"
  <2>1. reg' = register_at(reg, path, cmd) /\ stage' = "building"
    BY <1>1, <1>4, <1>6
  <2>2. Adds(reg, reg', {path}, {}, cmd) /\ Unambiguous(reg')
    BY <1>1, <1>5, <1>6, <2>1, PutAdds
  <2>3. /\ reg' \in RegistrySet /\ DOMAIN reg'.cmds = DOMAIN reg.cmds \cup {path}
        /\ \A p \in DOMAIN reg.cmds : reg'.cmds[p] = reg.cmds[p]
        /\ \A p \in {path} \ DOMAIN reg.cmds : reg'.cmds[p] = cmd
        /\ reg'.groups = reg.groups
    BY <2>2 DEF Adds
  <2>4. Fresh'
    BY <1>1, <1>5, <2>3 DEF Fresh
  <2>5. BaseInv'
    BY <1>1, <2>1, <2>2, <2>3 DEF BaseInv
  <2> QED BY <1>2, <2>1, <2>4, <2>5, AfterNested DEF AppInv
<1>7. CASE register_at_error(reg, path, cmd) # "none"
  <2>1. stage' = "refused" /\ reg' = reg
    BY <1>4, <1>7
  <2>2. BaseInv'
    BY <1>1, <2>1 DEF BaseInv
  <2> QED BY <1>2, <2>1, <2>2, AfterNested DEF AppInv
<1> QED BY <1>6, <1>7

\* The app's groups.
LEMMA RegisterGroupKeeps ==
    ASSUME AppInv, register_group_at
    PROVE  AppInv'
<1>1. /\ stage = "building" /\ UNCHANGED <<opts, sees, last>>
      /\ reg \in RegistrySet /\ Unambiguous(reg) /\ opts \in OptSet /\ mine \subseteq reg.groups
      /\ sees \in [mcp : SUBSET DOMAIN reg.cmds, completion : SUBSET DOMAIN reg.cmds]
      /\ Fresh
  BY DEF register_group_at, Call, AppInv, BaseInv
<1>2. LastInv'
  BY <1>1 DEF AppInv, LastInv
<1>3. PICK path \in AppPaths :
        IF register_group_error(reg, path) = "none"
        THEN reg' = register_group(reg, path) /\ mine' = mine \cup {path} /\ UNCHANGED stage
        ELSE stage' = "refused" /\ UNCHANGED <<reg, mine>>
  BY DEF register_group_at
<1>4. path \in Paths
  BY AppAssumption
<1>5. CASE register_group_error(reg, path) = "none"
  <2>1. reg' = register_group(reg, path) /\ mine' = mine \cup {path} /\ stage' = "building"
    BY <1>1, <1>3, <1>5
  <2>2. /\ reg' \in RegistrySet /\ Unambiguous(reg') /\ reg'.cmds = reg.cmds
        /\ reg'.groups = reg.groups \cup {path}
    BY <1>1, <1>4, <1>5, <2>1, GroupKeeps
  <2>3. Fresh' /\ BaseInv'
    BY <1>1, <2>1, <2>2 DEF Fresh, BaseInv
  <2> QED BY <1>2, <2>1, <2>3, AfterNested DEF AppInv
<1>6. CASE register_group_error(reg, path) # "none"
  <2>1. stage' = "refused" /\ reg' = reg /\ mine' = mine
    BY <1>3, <1>6
  <2>2. BaseInv'
    BY <1>1, <2>1 DEF BaseInv
  <2> QED BY <1>2, <2>1, <2>2, AfterNested DEF AppInv
<1> QED BY <1>5, <1>6

\* The builder's calls.
LEMMA ConfigureKeeps ==
    ASSUME AppInv, Configure
    PROVE  AppInv'
<1>1. opts \in OptSet
  BY DEF AppInv, BaseInv
<1>2. \A ns \in Namespaces : ns \in Seq(Segments)
  BY AppAssumption
<1>3. CASE register_command_at
  BY <1>3, RegisterCommandKeeps
<1>4. CASE register_group_at
  BY <1>4, RegisterGroupKeeps
<1>5. CASE with_deployment
  <2>1. opts' \in OptSet
    BY <1>1, <1>5 DEF with_deployment, OptSet
  <2> QED BY <1>5, <2>1, OptionKeeps DEF with_deployment, Call
<1>6. CASE with_builtin_command_namespace
  <2>1. opts' \in OptSet
    BY <1>1, <1>2, <1>6 DEF with_builtin_command_namespace, Set, OptSet
  <2> QED BY <1>6, <2>1, OptionKeeps DEF with_builtin_command_namespace, Set, Call
<1>7. CASE with_config \/ with_self_install \/ with_telemetry_ops
  <2>1. opts' \in OptSet
    BY <1>1, <1>7 DEF with_config, with_self_install, with_telemetry_ops, Set, OptSet
  <2>2. stage = "building" /\ UNCHANGED <<reg, stage, mine, sees, last>>
    BY <1>7 DEF with_config, with_self_install, with_telemetry_ops, Set, Call
  <2> QED BY <2>1, <2>2, OptionKeeps
<1>8. CASE \/ with_token_provider \/ with_telemetry \/ without_completion
           \/ without_mcp \/ without_end_user_telemetry \/ register_doctor_checks
  <2>1. PICK field \in {"provider", "legacy", "completion", "mcp", "withdrawn", "checks"},
             value \in BOOLEAN : Call /\ Set(field, value)
    BY <1>8 DEF with_token_provider, with_telemetry, without_completion,
       without_mcp, without_end_user_telemetry, register_doctor_checks
  <2>2. opts' \in OptSet
    <3>1. opts' = [opts EXCEPT ![field] = value]
      BY <2>1 DEF Set
    <3> QED BY <1>1, <3>1 DEF OptSet
  <2>3. stage = "building" /\ UNCHANGED <<reg, stage, mine, sees, last>>
    BY <2>1 DEF Call, Set
  <2> QED BY <2>2, <2>3, OptionKeeps
<1>9. CASE with_config_manifest
  <2>1. opts' \in OptSet
    BY <1>1, <1>9 DEF with_config_manifest, OptSet
  <2> QED BY <1>9, <2>1, OptionKeeps DEF with_config_manifest, Call
<1>10. CASE register_env_var
  <2>1. UNCHANGED <<reg, opts, mine, sees, last>> /\ stage = "building" /\ stage' \in {"building", "refused"}
    BY <1>10 DEF register_env_var, Call
  <2>2. BaseInv' /\ LastInv' /\ Fresh'
    BY <2>1 DEF AppInv, BaseInv, LastInv, Fresh
  <2> QED BY <2>1, <2>2, AfterNested DEF AppInv
<1> QED BY <1>3, <1>4, <1>5, <1>6, <1>7, <1>8, <1>9, <1>10 DEF Configure

\* The steps before the first registration.
LEMMA ResolveKeeps ==
    ASSUME AppInv, BuildResolve
    PROVE  AppInv'
<1>1. /\ stage = "building" /\ BaseInv /\ Fresh /\ opts \in OptSet /\ UNCHANGED <<mine, sees, last>>
      /\ opts' = [opts EXCEPT !.end_user = @ /\ ~(opts.legacy /\ ~opts.explicit)]
  BY DEF BuildResolve, AppInv, BaseInv
<1>2. /\ reg' = reg
      /\ \/ stage' = "checks"
         \/ stage' = "failed" /\ (opts.config = "broken" \/ opts.probe = "duplicate" \/ opts.keys = "owned")
  BY NextStages DEF BuildResolve, Err, Done
<1>3. opts' \in OptSet /\ Deployed' /\ opts'.config = opts.config /\ opts'.probe = opts.probe
      /\ opts'.keys = opts.keys
  BY <1>1 DEF OptSet, Deployed
<1>4. BaseInv'
  BY <1>1, <1>2, <1>3 DEF BaseInv
<1>5. LastInv'
  BY <1>1 DEF AppInv, LastInv
<1>6. Fresh'
  BY <1>1, <1>2 DEF Fresh
<1>7. stage' = "failed" => FailedForAReason'
  BY <1>2, <1>3 DEF FailedForAReason
<1> QED BY <1>2, <1>3, <1>4, <1>5, <1>6, <1>7, AfterNested DEF AppInv

\* The checks: the deployment settles what counts of self-install.
LEMMA ChecksKeeps ==
    ASSUME AppInv, BuildChecks
    PROVE  AppInv'
<1>1. /\ stage = "checks" /\ BaseInv /\ Fresh /\ Deployed /\ opts \in OptSet /\ UNCHANGED <<mine, sees, last>>
      /\ opts' = [opts EXCEPT !.checks = @ \/ ~Withdrawn \/ (opts.self # "none" /\ opts.end_user),
                              !.self = IF opts.end_user THEN @ ELSE "none"]
  BY DEF BuildChecks, AtStage, AppInv, BaseInv
<1>2. /\ reg' = reg
      /\ \/ stage' = "chat"
         \/ stage' = "failed" /\ opts.end_user /\ opts.self = "invalid"
  BY NextStages DEF BuildChecks, Err, Done
<1>3. /\ opts'.end_user = opts.end_user /\ opts'.legacy = opts.legacy /\ opts'.explicit = opts.explicit
      /\ opts'.self = (IF opts.end_user THEN opts.self ELSE "none")
  BY <1>1 DEF OptSet
<1>4. opts' \in OptSet
  <2>1. (opts.checks \/ ~Withdrawn \/ (opts.self # "none" /\ opts.end_user)) \in BOOLEAN
    OBVIOUS
  <2>2. (IF opts.end_user THEN opts.self ELSE "none") \in {"none", "valid", "invalid"}
    BY <1>1 DEF OptSet
  <2> QED BY <1>1, <2>1, <2>2 DEF OptSet
<1>5. Deployed' /\ SelfOfAnEndUser'
  BY <1>1, <1>3 DEF Deployed, SelfOfAnEndUser
<1>6. BaseInv'
  BY <1>1, <1>2, <1>4 DEF BaseInv, AfterChecks
<1>7. LastInv'
  BY <1>1 DEF AppInv, LastInv
<1>8. Fresh'
  BY <1>1, <1>2 DEF Fresh
<1>9. stage' = "failed" => FailedForAReason'
  BY <1>2, <1>3 DEF FailedForAReason
<1>10. ASSUME stage' = "chat"
       PROVE  Origins' /\ Got' /\ Snapshots'
  <2>1. \A p : ~FrameworkCommand(p)'
    BY <1>8 DEF Fresh, FrameworkCommand
  <2>2. \A p : ~Placed(p)'
    BY <1>10 DEF Placed, AfterChat, AfterAuth, AfterConfig, AfterTelemetry, AfterSpec,
       AfterDoctor, AfterSelf, AfterCompletion, AfterMcpServe, AfterMcpInstall
  <2>3. Origins'
    BY <1>8, <2>1 DEF Origins, Fresh
  <2>4. Got'
    BY <2>2 DEF Got
  <2>5. Snapshots'
    BY <1>10 DEF Snapshots, AfterCompletion, AfterMcpServe
  <2> QED BY <2>3, <2>4, <2>5
<1> QED BY <1>2, <1>5, <1>6, <1>7, <1>8, <1>9, <1>10, AfterNested DEF AppInv

\* A run, and a step that changes nothing.
LEMMA RunKeeps ==
    ASSUME AppInv, run_with_args \/ UNCHANGED app_vars
    PROVE  AppInv'
<1>1. UNCHANGED <<reg, env, opts, stage, mine, sees>>
  BY DEF run_with_args, app_vars
<1>2. BaseInv' /\ (Fresh' <=> Fresh) /\ (Deployed' <=> Deployed) /\ (SelfOfAnEndUser' <=> SelfOfAnEndUser)
  BY <1>1 DEF AppInv, BaseInv, Fresh, Deployed, SelfOfAnEndUser
<1>3. AppCmds' = AppCmds /\ AppAliases' = AppAliases
  BY <1>1 DEF AppCmds, AppAliases
<1>4. (Clash' <=> Clash) /\ (Taken' <=> Taken)
  BY <1>1, <1>3, ClashStays DEF Taken
<1>5. FailedForAReason' <=> FailedForAReason
  <2>1. Declared' = Declared
    BY <1>1, <1>3 DEF Declared
  <2>2. (VariablesRefused' <=> VariablesRefused) /\ (Withdrawn' <=> Withdrawn)
    BY <1>1, <2>1 DEF VariablesRefused, Withdrawn
  <2> QED BY <1>1, <1>3, <1>4, <2>2 DEF FailedForAReason
<1>6. /\ \A p : Placed(p)' <=> Placed(p)
      /\ \A g : PlacedGroup(g)' <=> PlacedGroup(g)
      /\ \A p : FrameworkCommand(p)' <=> FrameworkCommand(p)
  BY <1>1 DEF Placed, PlacedGroup, FrameworkCommand
<1>7. (Origins' <=> Origins) /\ (Got' <=> Got) /\ (Snapshots' <=> Snapshots)
  BY <1>1, <1>4, <1>6 DEF Origins, Got, Snapshots
<1>8. LastInv'
  <2>1. \A argv : run_command(argv)' = run_command(argv)
    BY <1>1 DEF run_command, has_categories, should_show_help
  <2>2. CASE run_with_args
    <3>1. PICK argv \in Argvs :
            last' = [argv |-> argv, ran |-> run_command(argv).ran, exit |-> run_command(argv).exit]
      BY <2>2 DEF run_with_args
    <3>2. argv \in ArgvSet /\ stage' = "built"
      BY <1>1, <2>2, AppAssumption DEF run_with_args, ArgvSet
    <3>3. /\ last'.argv \in ArgvSet /\ last'.ran = run_command(argv).ran
          /\ last'.exit = run_command(argv).exit /\ last'.argv = argv
      BY <3>1, <3>2
    <3> QED BY <2>1, <3>2, <3>3 DEF LastInv
  <2>3. CASE UNCHANGED app_vars
    BY <2>1, <2>3 DEF app_vars, AppInv, LastInv
  <2> QED BY <2>2, <2>3
<1> QED BY <1>1, <1>2, <1>4, <1>5, <1>7, <1>8 DEF AppInv

-----------------------------------------------------------------------------
(* The theorems.                                                           *)

\* A new builder.
LEMMA AppInvStarts ==
    ASSUME AppInit
    PROVE  AppInv
<1>1. /\ reg = EmptyRegistry /\ stage = "building" /\ mine = {} /\ opts = NewOpts
      /\ sees = [mcp |-> {}, completion |-> {}]
      /\ last = [argv |-> None, ran |-> <<>>, exit |-> "none"]
  BY DEF AppInit
<1>2. reg \in RegistrySet /\ Unambiguous(reg) /\ DOMAIN reg.cmds = {} /\ reg.groups = {}
  <2>1. \A x : x \notin DOMAIN <<>>
    OBVIOUS
  <2> QED BY <1>1, <2>1, EmptyIsRegistry DEF EmptyRegistry
<1>3. opts \in OptSet
  BY <1>1, EmptySeq DEF NewOpts, OptSet
<1>4. BaseInv
  BY <1>1, <1>2, <1>3 DEF BaseInv
<1>5. Fresh /\ LastInv
  BY <1>1, <1>2 DEF Fresh, LastInv
<1> QED BY <1>1, <1>4, <1>5, AfterNested DEF AppInv

\* Every step keeps the invariant.
LEMMA AppInvSteps ==
    ASSUME AppInv, [AppNext]_app_vars
    PROVE  AppInv'
<1>1. CASE Configure
  BY <1>1, ConfigureKeeps
<1>2. CASE Build
  BY <1>2, ResolveKeeps, ChecksKeeps, ChatKeeps, AuthKeeps, ConfigKeeps, TelemetryKeeps, NamespaceKeeps,
     SpecKeeps, DoctorKeeps, SelfKeeps, CompletionKeeps, McpServeKeeps, McpInstallKeeps, ClapKeeps
     DEF Build
<1>3. CASE run_with_args \/ UNCHANGED app_vars
  BY <1>3, RunKeeps
<1> QED BY <1>1, <1>2, <1>3 DEF AppNext

\* What is registered, in whatever order, is what the options and the app's
\* own calls account for, at every step of the build (AppBuilder::build).
THEOREM AppIsSound == AppSpec => []AppInv
<1>1. AppInit => AppInv
  BY AppInvStarts
<1>2. AppInv /\ [AppNext]_app_vars => AppInv'
  BY AppInvSteps
<1> QED BY <1>1, <1>2, PTL DEF AppSpec

-----------------------------------------------------------------------------
(* The environment variables, and what build let pass.                     *)

\* A step of build leaves the commands that are there and adds the framework's.
Grows(r, s) ==
  /\ DOMAIN r.cmds \subseteq DOMAIN s.cmds
  /\ \A p \in DOMAIN r.cmds : s.cmds[p] = r.cmds[p]
  /\ \A p \in DOMAIN s.cmds \ DOMAIN r.cmds : s.cmds[p].owner = "framework"

\* What is declared, and what the steps so far have looked at.
EnvInv ==
  /\ Agree(env) /\ \A e \in env : ~EmptyEntry(e)
  /\ stage # "built" => env \subseteq Variables
  /\ stage \in {"checks"} \cup AfterChecks =>
       opts.config # "broken" /\ opts.probe # "duplicate" /\ opts.keys # "owned"
  /\ stage \in AfterChecks => opts.self # "invalid"
  /\ stage \in AfterChat =>
       /\ <<"chat">> \in DOMAIN reg.cmds
       /\ reg.cmds[<<"chat">>].owner = "framework" => reg.cmds[<<"chat">>].env = ChatVariables
  /\ stage \in {"spec"} \cup AfterSpec => opts.ns \notin AppCmds
  /\ VariablesAreListed
  /\ stage = "built" => Withdrawn \/ opts.keys # "blank"

\* The app's commands are the same after such a step.
LEMMA GrowsKeepsTheApps ==
    ASSUME Grows(reg, reg')
    PROVE  AppCmds' = AppCmds
BY DEF Grows, AppCmds

\* One command.
LEMMA PutGrows ==
    ASSUME NEW r \in RegistrySet, Unambiguous(r), r.cmds = reg.cmds, NEW s, NEW path \in Paths,
           NEW cmd \in CommandSet, cmd.owner = "framework",
           Put(s, r, path, cmd, Err) \/ Put(s, r, path, cmd, Panic)
    PROVE  Grows(reg, reg') /\ stage' \in {NextStage(s), "failed", "panicked"}
<1>1. CASE register_at_error(r, path, cmd) = "none"
  <2>1. Adds(r, register_at(r, path, cmd), {path}, {}, cmd)
    BY <1>1, PutAdds
  <2>2. reg' = register_at(r, path, cmd) /\ stage' = NextStage(s)
    BY <1>1 DEF Put, Done
  <2> QED BY <2>1, <2>2 DEF Adds, Grows
<1>2. CASE register_at_error(r, path, cmd) # "none"
  BY <1>2 DEF Put, Err, Panic, Grows
<1> QED BY <1>1, <1>2

\* A group and its leaves.
LEMMA PutGroupGrows ==
    ASSUME reg \in RegistrySet, Unambiguous(reg), NEW s, NEW group \in Paths, NEW leaves \in SUBSET Segments,
           PutGroup(s, group, leaves)
    PROVE  Grows(reg, reg') /\ stage' \in {NextStage(s), "failed", "panicked"}
<1>1. CASE Err
  BY <1>1 DEF Err, Grows
<1>2. CASE ~Err
  <2>1. stage' = NextStage(s) /\ Adds(reg, reg', Under(group, leaves), {group}, Builtin)
    BY <1>2, PutGroupAdds
  <2> QED BY <2>1, BuiltinFacts DEF Adds, Grows
<1> QED BY <1>1, <1>2

\* The steps that register after chat.
Registering == {"auth", "config", "telemetry", "spec", "doctor", "self", "completion", "mcp_serve", "mcp_install"}

\* They touch neither what is there nor the variables.
LEMMA BuildGrows ==
    ASSUME AppInv,
           \/ BuildAuth \/ BuildConfig \/ BuildTelemetry \/ BuildSpec \/ BuildDoctor \/ BuildSelf
           \/ BuildCompletion \/ BuildMcpServe \/ BuildMcpInstall
    PROVE  /\ Grows(reg, reg') /\ stage \in Registering /\ UNCHANGED <<env, opts>>
           /\ stage' \in {NextStage(stage), "failed", "panicked"}
<1>1. reg \in RegistrySet /\ Unambiguous(reg) /\ opts \in OptSet
  BY DEF AppInv, BaseInv
<1>2. /\ {"spec", "doctor", "self", "completion"} \subseteq Segments
      /\ AuthLeaves \subseteq Segments /\ ConfigLeaves \subseteq Segments
      /\ TelemetryLeaves \subseteq Segments /\ SelfLeaves \subseteq Segments
  BY Literals
<1>3. /\ <<"auth">> \in Paths /\ <<"config">> \in Paths /\ <<"telemetry">> \in Paths
      /\ push(opts.ns, "self") \in Paths /\ push(opts.ns, "spec") \in Paths
      /\ push(opts.ns, "doctor") \in Paths /\ push(opts.ns, "completion") \in Paths
      /\ \A f \in McpNames : f \in Paths
  BY <1>1, <1>2, Shapes
<1>4. \A s : Done(s, reg) => Grows(reg, reg') /\ stage' = NextStage(s)
  BY DEF Done, Grows
<1>5. CASE BuildAuth
  <2>1. AuthLeaves \in SUBSET Segments
    BY <1>2
  <2>2. stage = "auth" /\ UNCHANGED <<env, opts>>
        /\ (Done("auth", reg) \/ PutGroup("auth", <<"auth">>, AuthLeaves))
    BY <1>5 DEF BuildAuth, AtStage, AuthLeaves
  <2> QED BY <1>1, <1>3, <1>4, <2>1, <2>2, PutGroupGrows DEF Registering
<1>6. CASE BuildConfig
  <2>1. ConfigLeaves \in SUBSET Segments
    BY <1>2
  <2>2. stage = "config" /\ UNCHANGED <<env, opts>>
        /\ (Done("config", reg) \/ PutGroup("config", <<"config">>, ConfigLeaves))
    BY <1>6 DEF BuildConfig, AtStage, ConfigLeaves
  <2> QED BY <1>1, <1>3, <1>4, <2>1, <2>2, PutGroupGrows DEF Registering
<1>7. CASE BuildTelemetry
  <2>1. TelemetryLeaves \in SUBSET Segments
    BY <1>2
  <2>2. stage = "telemetry" /\ UNCHANGED <<env, opts>>
        /\ (Done("telemetry", reg) \/ PutGroup("telemetry", <<"telemetry">>, TelemetryLeaves))
    BY <1>7 DEF BuildTelemetry, AtStage, TelemetryLeaves
  <2> QED BY <1>1, <1>3, <1>4, <2>1, <2>2, PutGroupGrows DEF Registering
<1>8. CASE BuildSpec
  <2>1. stage = "spec" /\ UNCHANGED <<env, opts>>
        /\ (Done("spec", reg) \/ Put("spec", reg, push(opts.ns, "spec"), Builtin, Err))
    BY <1>8 DEF BuildSpec, AtStage
  <2> QED BY <1>1, <1>3, <1>4, <2>1, BuiltinFacts, PutGrows DEF Registering
<1>9. CASE BuildDoctor
  <2>1. stage = "doctor" /\ UNCHANGED <<env, opts>>
        /\ (Done("doctor", reg) \/ Put("doctor", reg, push(opts.ns, "doctor"), Categorised, Err))
    BY <1>9 DEF BuildDoctor, AtStage
  <2> QED BY <1>1, <1>3, <1>4, <2>1, BuiltinFacts, PutGrows DEF Registering
<1>10. CASE BuildSelf
  <2>1. SelfLeaves \in SUBSET Segments
    BY <1>2
  <2>2. stage = "self" /\ UNCHANGED <<env, opts>>
        /\ (Done("self", reg) \/ PutGroup("self", push(opts.ns, "self"), SelfLeaves))
    BY <1>10 DEF BuildSelf, AtStage, SelfLeaves
  <2> QED BY <1>1, <1>3, <1>4, <2>1, <2>2, PutGroupGrows DEF Registering
<1>11. CASE BuildCompletion
  <2> DEFINE path == push(opts.ns, "completion")
             s == register_at(reg, path, Completion)
  <2>1. /\ stage = "completion" /\ UNCHANGED <<env, opts>>
        /\ \/ Done("completion", reg) \/ Err
           \/ /\ register_at_error(reg, path, Completion) = "none"
              /\ reg' = [s EXCEPT !.completion = path] /\ stage' = NextStage("completion")
    BY <1>11 DEF BuildCompletion, AtStage, Done, register_framework_completion_at
  <2>2. Err => Grows(reg, reg') /\ stage' = "failed"
    BY DEF Err, Grows
  <2>3. ASSUME register_at_error(reg, path, Completion) = "none", reg' = [s EXCEPT !.completion = path]
        PROVE  Grows(reg, reg')
    <3>1. Adds(reg, s, {path}, {}, Completion)
      BY <1>1, <1>3, <2>3, BuiltinFacts, PutAdds
    <3> HIDE DEF s
    <3>2. reg'.cmds = s.cmds
      BY <2>3, <3>1 DEF Adds, RegistrySet
    <3> QED BY <3>1, <3>2, BuiltinFacts DEF Adds, Grows
  <2> QED BY <1>4, <2>1, <2>2, <2>3 DEF Registering
<1>12. CASE BuildMcpServe
  <2>1. PICK r : r = WithMcpGroup(reg)
    OBVIOUS
  <2>2. r \in RegistrySet /\ Unambiguous(r) /\ r.cmds = reg.cmds
    BY <1>1, <2>1, McpGroup
  <2>3. <<"mcp", "serve">> \in Paths
    BY <1>3 DEF McpNames
  <2>4. stage = "mcp_serve" /\ UNCHANGED <<env, opts>>
        /\ (Done("mcp_serve", reg) \/ Put("mcp_serve", r, <<"mcp", "serve">>, Builtin, Panic))
    BY <1>12, <2>1 DEF BuildMcpServe, AtStage
  <2> QED BY <1>4, <2>2, <2>3, <2>4, BuiltinFacts, PutGrows DEF Registering
<1>13. CASE BuildMcpInstall
  <2>1. PICK r : r = IF resolve(reg, <<"mcp">>) THEN reg ELSE WithMcpGroup(reg)
    OBVIOUS
  <2>2. r \in {reg, WithMcpGroup(reg)}
    BY <2>1
  <2>3. r \in RegistrySet /\ Unambiguous(r) /\ r.cmds = reg.cmds
    BY <1>1, <2>2, McpGroup
  <2>4. PICK new : new = {<<"mcp", "install">>, <<"mcp", "list">>} \ DOMAIN reg.cmds
    OBVIOUS
  <2>5. new \in SUBSET Paths
    BY <1>3, <2>4 DEF McpNames
  <2>6. stage = "mcp_install" /\ UNCHANGED <<env, opts>> /\ (Panic \/ Done("mcp_install", WithAt(r, new, Builtin)))
    BY <1>13, <2>1, <2>4 DEF BuildMcpInstall, AtStage, WithAt
  <2>7. Adds(r, WithAt(r, new, Builtin), new, {}, Builtin)
    BY <2>3, <2>5, BuiltinFacts, WithAdds
  <2>8. CASE Panic
    BY <2>6, <2>8 DEF Panic, Grows, Registering
  <2>9. CASE Done("mcp_install", WithAt(r, new, Builtin))
    BY <2>3, <2>6, <2>7, <2>9, BuiltinFacts DEF Done, Adds, Grows, Registering
  <2> QED BY <2>6, <2>8, <2>9
<1> QED BY <1>5, <1>6, <1>7, <1>8, <1>9, <1>10, <1>11, <1>12, <1>13

\* A new builder.
LEMMA EnvInvStarts ==
    ASSUME AppInit
    PROVE  EnvInv
BY DEF AppInit, EnvInv, Agree, VariablesAreListed, AfterChecks, AfterChat, AfterSpec, AfterTelemetry, AfterSelf

\* The builder's calls.
LEMMA ConfigureKeepsEnv ==
    ASSUME AppInv, EnvInv, Configure
    PROVE  EnvInv'
<1>1. /\ stage = "building" /\ stage' \in {"building", "refused"}
      /\ \/ env' = env
         \/ \E e \in Variables : env' = env \cup {e} /\ ~EmptyEntry(e) /\ Agree(env \cup {e})
  BY DEF Configure, with_token_provider, with_telemetry, with_config, with_config_manifest,
     without_completion, without_mcp, with_self_install, with_builtin_command_namespace,
     without_end_user_telemetry, register_doctor_checks, with_telemetry_ops, with_deployment,
     register_command_at, register_group_at, register_env_var, Call, Set
<1>2. Agree(env') /\ (\A e \in env' : ~EmptyEntry(e)) /\ env' \subseteq Variables
  BY <1>1 DEF EnvInv
<1>3. VariablesAreListed'
  BY <1>1 DEF VariablesAreListed
<1> QED BY <1>1, <1>2, <1>3 DEF EnvInv, Agree, AfterChecks, AfterChat, AfterSpec, AfterTelemetry, AfterSelf

\* A step that registers after chat.
LEMMA RegisteringKeepsEnv ==
    ASSUME EnvInv, Grows(reg, reg'), stage \in Registering, UNCHANGED <<env, opts>>,
           stage' \in {NextStage(stage), "failed", "panicked"}
    PROVE  EnvInv'
<1>1. AppCmds' = AppCmds
  BY GrowsKeepsTheApps
<1>2. stage' \in {"config", "telemetry", "namespace", "doctor", "self", "completion", "mcp_serve",
                  "mcp_install", "clap", "failed", "panicked"}
      /\ (stage' \in AfterSpec => stage \in {"spec"} \cup AfterSpec)
      /\ stage' # "spec" /\ stage \in AfterChat
  BY NextStages DEF Registering, AfterSpec, AfterSelf, AfterChat, AfterTelemetry
<1>3. stage # "built" /\ stage' # "built" /\ stage \in AfterChecks
  BY <1>2 DEF Registering, AfterChecks, AfterTelemetry, AfterSelf
<1>4. /\ <<"chat">> \in DOMAIN reg'.cmds
      /\ reg'.cmds[<<"chat">>].owner = "framework" => reg'.cmds[<<"chat">>].env = ChatVariables
  BY <1>2 DEF EnvInv, Grows
<1>5. VariablesAreListed'
  BY <1>3 DEF VariablesAreListed
<1>6. (Agree(env) /\ \A e \in env : ~EmptyEntry(e))'
  BY DEF EnvInv, Agree, EmptyEntry
<1> QED BY <1>1, <1>2, <1>3, <1>4, <1>5, <1>6 DEF EnvInv

\* The other steps of build but the last.
LEMMA BuildKeepsEnv ==
    ASSUME AppInv, EnvInv, BuildResolve \/ BuildChecks \/ BuildChat \/ BuildNamespace
    PROVE  EnvInv'
<1>1. reg \in RegistrySet /\ Unambiguous(reg) /\ opts \in OptSet
  BY DEF AppInv, BaseInv
<1>2. /\ env' = env /\ stage # "built"
      /\ Agree(env') /\ (\A e \in env' : ~EmptyEntry(e)) /\ env' \subseteq Variables
  BY DEF EnvInv, Agree, EmptyEntry, BuildResolve, BuildChecks, BuildChat, BuildNamespace, AtStage
<1>3. stage' # "built" => VariablesAreListed'
  BY DEF VariablesAreListed
<1>4. CASE BuildResolve
  <2>1. stage' = "failed" \/ (stage' = "checks" /\ opts.config # "broken" /\ opts.probe # "duplicate" /\ opts.keys # "owned")
    BY <1>4, NextStages DEF BuildResolve, Err, Done
  <2>2. opts'.config = opts.config /\ opts'.probe = opts.probe /\ opts'.keys = opts.keys
    BY <1>1, <1>4 DEF BuildResolve, OptSet
  <2> QED BY <1>2, <1>3, <2>1, <2>2 DEF EnvInv, Agree, AfterChecks, AfterChat, AfterSpec, AfterTelemetry, AfterSelf
<1>5. CASE BuildChecks
  <2>1. stage = "checks" /\ (stage' = "failed" \/ (stage' = "chat" /\ ~(opts.end_user /\ opts.self = "invalid")))
    BY <1>5, NextStages DEF BuildChecks, AtStage, Err, Done
  <2>2. opts'.config = opts.config /\ opts'.probe = opts.probe /\ opts'.keys = opts.keys
        /\ opts'.self = (IF opts.end_user THEN opts.self ELSE "none")
    BY <1>1, <1>5 DEF BuildChecks, OptSet
  <2> QED BY <1>2, <1>3, <2>1, <2>2 DEF EnvInv, Agree, AfterChecks, AfterChat, AfterSpec, AfterTelemetry, AfterSelf
<1>6. CASE BuildChat
  <2>1. stage = "chat" /\ stage \in AfterChecks /\ UNCHANGED opts /\ Fresh /\ NextStage("chat") = "auth"
    BY <1>6, NextStages DEF BuildChat, AtStage, AppInv, AfterChecks
  <2>2. CASE resolve(reg, <<"chat">>)
    <3>1. stage' = "auth" /\ reg' = reg /\ <<"chat">> \in DOMAIN reg.cmds
      BY <1>6, <2>1, <2>2 DEF BuildChat, Done, resolve
    <3>2. reg.cmds[<<"chat">>].owner = "app"
      BY <2>1, <3>1 DEF Fresh
    <3> QED BY <1>2, <1>3, <2>1, <3>1, <3>2 DEF EnvInv, Agree, AfterChecks, AfterChat, AfterSpec, AfterTelemetry, AfterSelf
  <2>3. CASE ~resolve(reg, <<"chat">>)
    <3>1. Put("chat", reg, <<"chat">>, ChatCommand, Panic) /\ <<"chat">> \in Paths
      BY <1>1, <1>6, <2>3, Shapes DEF BuildChat
    <3>2. CASE register_at_error(reg, <<"chat">>, ChatCommand) = "none"
      <4>1. stage' = "auth" /\ reg' = register_at(reg, <<"chat">>, ChatCommand)
        BY <2>1, <3>1, <3>2 DEF Put, Done
      <4>2. Adds(reg, reg', {<<"chat">>}, {}, ChatCommand) /\ <<"chat">> \notin DOMAIN reg.cmds
        BY <1>1, <3>1, <3>2, <4>1, BuiltinFacts, PutAdds
      <4>3. <<"chat">> \in DOMAIN reg'.cmds /\ reg'.cmds[<<"chat">>].env = ChatVariables
        BY <4>2, BuiltinFacts DEF Adds
      <4> QED BY <1>2, <1>3, <2>1, <4>1, <4>3 DEF EnvInv, Agree, AfterChecks, AfterChat, AfterSpec, AfterTelemetry, AfterSelf
    <3>3. CASE register_at_error(reg, <<"chat">>, ChatCommand) # "none"
      <4>1. stage' = "panicked"
        BY <3>1, <3>3 DEF Put, Panic
      <4> QED BY <1>2, <1>3, <4>1 DEF EnvInv, Agree, AfterChecks, AfterChat, AfterSpec, AfterTelemetry, AfterSelf
    <3> QED BY <3>2, <3>3
  <2> QED BY <2>2, <2>3
<1>7. CASE BuildNamespace
  <2>1. stage = "namespace" /\ stage \in AfterChecks /\ stage \in AfterChat /\ UNCHANGED <<opts, reg>>
        /\ (stage' = "failed" \/ (stage' = "spec" /\ ~(opts.ns # <<>> /\ resolve(reg, opts.ns))))
    BY <1>7, NextStages DEF BuildNamespace, AtStage, Done, Err, AfterChecks, AfterChat, AfterTelemetry
  <2>2. stage' = "spec" => opts.ns \notin AppCmds
    <3>1. DOMAIN reg.cmds \subseteq Paths /\ <<>> \notin Paths
      BY <1>1, RegistryFacts DEF Paths
    <3> QED BY <2>1, <3>1 DEF resolve, AppCmds
  <2>3. AppCmds' = AppCmds
    BY <2>1 DEF AppCmds
  <2> QED BY <1>2, <1>3, <2>1, <2>2, <2>3 DEF EnvInv, Agree, AfterChecks, AfterChat, AfterSpec, AfterTelemetry, AfterSelf
<1> QED BY <1>4, <1>5, <1>6, <1>7

\* The last step lists the variables.
LEMMA ClapKeepsEnv ==
    ASSUME AppInv, EnvInv, BuildClap
    PROVE  EnvInv'
<1> DEFINE declared == UNION {reg.cmds[p].env : p \in DOMAIN reg.cmds}
           all == env \cup declared
           more == IF Withdrawn THEN {} ELSE {h \in HelpVariables : \A e \in all : e.name # h.name}
<1>1. stage = "clap" /\ UNCHANGED <<opts, reg>> /\ reg \in RegistrySet /\ stage \in AfterChecks
      /\ stage \in AfterChat /\ stage \in AfterSpec
  BY DEF BuildClap, Err, Done, AppInv, BaseInv, AfterChecks, AfterChat, AfterSpec, AfterTelemetry, AfterSelf
<1>2. AppCmds' = AppCmds /\ (Withdrawn' <=> Withdrawn)
  BY <1>1 DEF AppCmds, Withdrawn
<1>3. CASE stage' = "failed" /\ env' = env
  <2>1. VariablesAreListed'
    BY <1>3 DEF VariablesAreListed
  <2> QED BY <1>1, <1>2, <1>3, <2>1 DEF EnvInv, Agree, EmptyEntry, AfterChecks, AfterChat, AfterSpec, AfterTelemetry, AfterSelf
<1>4. CASE /\ stage' = "built" /\ env' = all \cup more
           /\ (\A e \in declared : ~EmptyEntry(e)) /\ Agree(all) /\ (Withdrawn \/ opts.keys # "blank")
  <2>1. /\ \A e \in HelpVariables : ~EmptyEntry(e)
        /\ Agree(HelpVariables)
    <3>1. \A e \in HelpVariables : e.text = "telemetry" /\ e.name # "blank"
      BY DEF HelpVariables
    <3> QED BY <3>1 DEF EmptyEntry, Agree
  <2>2. more \subseteq HelpVariables /\ (\A h \in more : \A e \in all : e.name # h.name) /\ (Withdrawn => more = {})
        /\ (~Withdrawn => \A h \in HelpVariables : h \in more \/ \E e \in all : e.name = h.name)
    OBVIOUS
  <2>3. \A p \in DOMAIN reg.cmds : reg.cmds[p].env \subseteq declared /\ reg.cmds[p].env \subseteq Variables \cup ChatVariables
    BY <1>1, RegistryFacts DEF CommandSet
  <2>4. declared \subseteq Variables \cup ChatVariables
    BY <2>3
  <2>5. env \subseteq Variables
    BY <1>1 DEF EnvInv
  <2> HIDE DEF declared, more
  <2>6. Agree(env')
    BY <1>4, <2>1, <2>2 DEF Agree
  <2>7. \A e \in env' : ~EmptyEntry(e)
    BY <1>4, <2>1, <2>2 DEF EnvInv
  <2>8. \A p \in DOMAIN reg'.cmds : reg'.cmds[p].env \subseteq env'
    BY <1>1, <1>4, <2>3
  <2>9. ~Withdrawn => \A h \in HelpVariables : \E e \in env' : e.name = h.name
    BY <1>4, <2>2
  <2>10. \A e \in env' \ (Variables \cup ChatVariables) : ~Withdrawn /\ e \in HelpVariables
    BY <1>4, <2>2, <2>4, <2>5
  <2>11. VariablesAreListed'
    BY <1>2, <2>6, <2>7, <2>8, <2>9, <2>10 DEF VariablesAreListed, Agree, EmptyEntry
  <2> QED BY <1>1, <1>2, <1>4, <2>6, <2>7, <2>11 DEF EnvInv, Agree, EmptyEntry
<1>5. \/ stage' = "failed" /\ env' = env
      \/ /\ stage' = "built" /\ env' = all \cup more
         /\ (\A e \in declared : ~EmptyEntry(e)) /\ Agree(all) /\ (Withdrawn \/ opts.keys # "blank")
  BY NextStages DEF BuildClap, Err, Done
<1> QED BY <1>3, <1>4, <1>5

\* A run, and a step that changes nothing.
LEMMA RunKeepsEnv ==
    ASSUME EnvInv, run_with_args \/ UNCHANGED app_vars
    PROVE  EnvInv'
<1>1. UNCHANGED <<reg, env, opts, stage>>
  BY DEF run_with_args, app_vars
<1>2. AppCmds' = AppCmds /\ (Withdrawn' <=> Withdrawn) /\ (VariablesAreListed' <=> VariablesAreListed)
  BY <1>1 DEF AppCmds, Withdrawn, VariablesAreListed, Agree, EmptyEntry
<1> QED BY <1>1, <1>2 DEF EnvInv, Agree, EmptyEntry

\* Every step keeps what is said of the variables.
LEMMA EnvInvSteps ==
    ASSUME AppInv, EnvInv, [AppNext]_app_vars
    PROVE  EnvInv'
<1>1. CASE Configure
  BY <1>1, ConfigureKeepsEnv
<1>2. CASE BuildResolve \/ BuildChecks \/ BuildChat \/ BuildNamespace
  BY <1>2, BuildKeepsEnv
<1>3. CASE \/ BuildAuth \/ BuildConfig \/ BuildTelemetry \/ BuildSpec \/ BuildDoctor \/ BuildSelf
           \/ BuildCompletion \/ BuildMcpServe \/ BuildMcpInstall
  BY <1>3, BuildGrows, RegisteringKeepsEnv
<1>4. CASE BuildClap
  BY <1>4, ClapKeepsEnv
<1>5. CASE run_with_args \/ UNCHANGED app_vars
  BY <1>5, RunKeepsEnv
<1> QED BY <1>1, <1>2, <1>3, <1>4, <1>5 DEF AppNext, Build

\* What is listed, and what was looked at, at every step.
LEMMA EnvHolds == AppSpec => []EnvInv
<1>1. AppInit => EnvInv
  BY EnvInvStarts
<1>2. AppInv /\ EnvInv /\ [AppNext]_app_vars => EnvInv'
  BY EnvInvSteps
<1> QED BY <1>1, <1>2, AppIsSound, PTL DEF AppSpec

-----------------------------------------------------------------------------
(* A command line runs the one command it names.                           *)

\* The types follow from what the invariant says of the state.
LEMMA TypesFollow ==
    ASSUME AppInv
    PROVE  AppTypeOK
<1>1. /\ BaseInv /\ LastInv /\ reg \in RegistrySet
      /\ stage \in {"building", "refused", "failed", "panicked", "checks"} \cup AfterChecks
  BY DEF AppInv, BaseInv
<1>2. DOMAIN reg = {"cmds", "groups", "completion"}
  BY <1>1 DEF RegistrySet
<1>3. \A p \in DOMAIN reg.cmds : reg.cmds[p].owner \in {"app", "framework"}
  BY <1>1, RegistryFacts DEF CommandSet
<1>4. stage \in {"building", "refused", "built", "failed", "panicked"}
                \cup {Stages[i] : i \in 1 .. Len(Stages)}
  <2>1. Len(Stages) = 14
    BY DEF Stages
  <2>2. /\ Stages[2] = "checks" /\ Stages[3] = "chat" /\ Stages[4] = "auth"
        /\ Stages[5] = "config" /\ Stages[6] = "telemetry" /\ Stages[7] = "namespace"
        /\ Stages[8] = "spec" /\ Stages[9] = "doctor" /\ Stages[10] = "self"
        /\ Stages[11] = "completion" /\ Stages[12] = "mcp_serve" /\ Stages[13] = "mcp_install"
        /\ Stages[14] = "clap"
    BY DEF Stages
  <2>3. {"checks", "chat", "auth", "config", "telemetry", "namespace", "spec", "doctor", "self",
         "completion", "mcp_serve", "mcp_install", "clap"} \subseteq {Stages[i] : i \in 1 .. 14}
    BY <2>2
  <2> QED BY <1>1, <2>1, <2>3 DEF AfterChecks, AfterTelemetry, AfterSelf
<1>5. sees.mcp \cup sees.completion \subseteq DOMAIN reg.cmds
  BY <1>1 DEF BaseInv
<1>6. last.exit \in {"none", "ok", "usage", "command"}
  BY <1>1, OnlyNamedRuns DEF LastInv, BaseInv
<1> QED BY <1>2, <1>3, <1>4, <1>5, <1>6 DEF AppTypeOK

\* A name means one thing.
LEMMA NamesAreUnambiguous ==
    ASSUME AppInv
    PROVE  RegistryUnambiguous
<1> DEFINE meanings(n) == {c \in DOMAIN reg.cmds : n = c \/ n \in AliasPaths(c, reg.cmds[c])}
<1>1. Unambiguous(reg)
  BY DEF AppInv, BaseInv
<1>2. \A n : \A c \in DOMAIN reg.cmds : c \in meanings(n) <=> Means(reg, c, n)
  BY DEF Means
<1>3. ASSUME NEW n
      PROVE  /\ Cardinality(meanings(n)) <= 1
             /\ \A c \in meanings(n) :
                  n \notin reg.groups /\ \A q \in DOMAIN reg.cmds \cup reg.groups : Below(n, q) => q = c
  <2>1. \A c \in meanings(n) : c \in DOMAIN reg.cmds /\ Means(reg, c, n)
    BY <1>2
  <2>2. \A c \in meanings(n) : \A d \in meanings(n) : d = c
    BY <1>1, <2>1 DEF Unambiguous
  <2>3. \A c \in meanings(n) :
          n \notin reg.groups /\ \A q \in DOMAIN reg.cmds \cup reg.groups : Below(n, q) => q = c
    BY <1>1, <2>1 DEF Unambiguous
  <2> HIDE DEF meanings
  <2>4. meanings(n) = {} \/ \E c : meanings(n) = {c}
    BY <2>2
  <2>5. Cardinality(meanings(n)) = 0 \/ Cardinality(meanings(n)) = 1
    BY <2>4, FS_EmptySet, FS_Singleton
  <2>6. Cardinality(meanings(n)) <= 1
    BY <2>5
  <2> QED BY <2>3, <2>6
<1> QED BY <1>3 DEF RegistryUnambiguous

\* What ran is what the words name.
LEMMA TheNamedCommandRuns ==
    ASSUME AppInv
    PROVE  DispatchRunsTheNamedCommand
<1> DEFINE words == last.argv.words
           named == {c \in DOMAIN reg.cmds :
                       \/ words = c
                       \/ \E a \in reg.cmds[c].aliases : Len(a) = 1 /\ words = Front(c) \o a}
           hidden == {c \in named : leaf(c) = "version" /\ ImplicitVersion(reg)}
<1>1. reg \in RegistrySet /\ Unambiguous(reg) /\ LastInv
  BY DEF AppInv, BaseInv
<1>2. \A c \in DOMAIN reg.cmds : c \in named <=> NamedBy(reg, c, words)
  BY DEF NamedBy
<1> SUFFICES ASSUME last.argv.flag = "none"
             PROVE  /\ \A c \in named \ hidden : ~reg.cmds[c].needs => last.ran = c /\ last.exit = "command"
                    /\ last.exit = "command" => last.ran \in named
  BY DEF DispatchRunsTheNamedCommand
<1>3. CASE last = [argv |-> None, ran |-> <<>>, exit |-> "none"]
  <2>1. words = <<>> /\ last.exit = "none"
    BY <1>3 DEF None
  <2>2. ASSUME NEW c \in named
        PROVE  FALSE
    <3>1. c \in DOMAIN reg.cmds /\ NamedBy(reg, c, words)
      BY <1>2
    <3>2. PICK w \in WordsFor(reg, c) : w \in Segments /\ words = push(Front(c), w)
      BY <1>1, <3>1, NamedFacts
    <3>3. Front(c) \in Seq(Segments)
      BY <1>1, <3>1, RegistryFacts, PathFacts
    <3>4. push(Front(c), w) \in Paths
      BY <3>2, <3>3, PushFacts
    <3> QED BY <2>1, <3>2, <3>4 DEF Paths
  <2> QED BY <2>1, <2>2
<1>4. CASE /\ last.argv \in ArgvSet
           /\ last.ran = run_command(last.argv).ran /\ last.exit = run_command(last.argv).exit
  <2>1. ASSUME NEW c \in named \ hidden, ~reg.cmds[c].needs
        PROVE  last.ran = c /\ last.exit = "command"
    <3>1. c \in DOMAIN reg.cmds /\ NamedBy(reg, c, words) /\ ~(leaf(c) = "version" /\ ImplicitVersion(reg))
      BY <1>2, <2>1
    <3> QED BY <1>1, <1>4, <2>1, <3>1, NamedRuns
  <2>2. ASSUME last.exit = "command"
        PROVE  last.ran \in named
    <3>1. last.ran \in DOMAIN reg.cmds /\ NamedBy(reg, last.ran, words)
      BY <1>1, <1>4, <2>2, OnlyNamedRuns
    <3> QED BY <1>2, <3>1
  <2> QED BY <2>1, <2>2
<1> QED BY <1>1, <1>3, <1>4 DEF LastInv

\* However commands, groups and aliases were registered, a name means one
\* thing, and a command line runs the one command it names, by its path or by
\* an alias next to it (CommandRegistry, parse_with_clap, run_command).
THEOREM ALineRunsOneCommand == AppSpec => []OneCommandPerLine
<1>1. AppInv => OneCommandPerLine
  BY TypesFollow, NamesAreUnambiguous, TheNamedCommandRuns DEF OneCommandPerLine
<1> QED BY <1>1, AppIsSound, PTL

-----------------------------------------------------------------------------
(* The app that build returns.                                             *)

\* At the end of build everything the options ask for is placed.
LEMMA WantedIsPlaced ==
    ASSUME AppInv, stage = "built", NEW f \in Wanted
    PROVE  Placed(f) /\ f # push(opts.ns, "doctor")
<1>1. opts \in OptSet
  BY DEF AppInv, BaseInv
<1>2. /\ stage \in AfterChat /\ stage \in AfterAuth /\ stage \in AfterConfig /\ stage \in AfterTelemetry
      /\ stage \in AfterSpec /\ stage \in AfterSelf /\ stage \in AfterCompletion
      /\ stage \in AfterMcpServe /\ stage \in AfterMcpInstall
  BY DEF AfterChat, AfterAuth, AfterConfig, AfterTelemetry, AfterSpec, AfterSelf, AfterCompletion,
         AfterMcpServe, AfterMcpInstall
<1>3. Placed(f)
  BY <1>1, <1>2, NamesAre DEF Placed
<1>4. leaf(push(opts.ns, "doctor")) = "doctor"
  BY <1>1, Shapes, Literals
<1>5. leaf(f) # "doctor"
  <2>1. /\ AuthLeaves \in SUBSET Segments /\ ConfigLeaves \in SUBSET Segments
        /\ TelemetryLeaves \in SUBSET Segments /\ SelfLeaves \in SUBSET Segments
        /\ "spec" \in Segments /\ "completion" \in Segments /\ "self" \in Segments
    BY Literals
  <2>2. <<"auth">> \in Seq(Segments) /\ <<"config">> \in Seq(Segments) /\ <<"telemetry">> \in Seq(Segments)
        /\ push(opts.ns, "self") \in Seq(Segments)
    BY <1>1, <2>1, Shapes
  <2>3. /\ \A p \in Under(<<"auth">>, AuthLeaves) : leaf(p) \in AuthLeaves
        /\ \A p \in Under(<<"config">>, ConfigLeaves) : leaf(p) \in ConfigLeaves
        /\ \A p \in Under(<<"telemetry">>, TelemetryLeaves) : leaf(p) \in TelemetryLeaves
        /\ \A p \in Under(push(opts.ns, "self"), SelfLeaves) : leaf(p) \in SelfLeaves
    BY <2>1, <2>2, UnderFacts
  <2>4. /\ leaf(<<"chat">>) = "chat" /\ leaf(<<"mcp", "serve">>) = "serve"
        /\ leaf(<<"mcp", "install">>) = "install" /\ leaf(<<"mcp", "list">>) = "list"
        /\ leaf(push(opts.ns, "spec")) = "spec" /\ leaf(push(opts.ns, "completion")) = "completion"
    BY <1>1, <2>1, Shapes
  <2>5. \A x \in AuthLeaves \cup ConfigLeaves \cup TelemetryLeaves \cup SelfLeaves : x # "doctor"
    BY DEF AuthLeaves, ConfigLeaves, TelemetryLeaves, SelfLeaves
  <2> QED BY <1>1, <2>3, <2>4, <2>5, NamesAre
<1> QED BY <1>3, <1>4, <1>5

\* Nothing is let pass: what is refused does not build.
LEMMA NothingIsLetPass ==
    ASSUME AppInv, EnvInv, stage = "built", ~Clash
    PROVE  /\ opts.config # "broken" /\ opts.probe # "duplicate" /\ opts.keys # "owned"
           /\ opts.self # "invalid" /\ opts.ns \notin AppCmds /\ ~VariablesRefused
           /\ ~(opts.keys = "blank" /\ ~Withdrawn)
<1>1. stage \in AfterChecks /\ stage \in AfterChat /\ stage \in AfterSpec
  BY DEF AfterChecks, AfterChat, AfterSpec, AfterTelemetry, AfterSelf
<1>2. reg \in RegistrySet /\ opts \in OptSet
  BY DEF AppInv, BaseInv
<1>3. Declared \subseteq env
  BY DEF EnvInv, VariablesAreListed, Declared, AppCmds
<1>4. ChatVariables \subseteq env
  <2>1. <<"chat">> \in FrameworkNames
    BY <1>2, NamesAre
  <2>2. <<"chat">> \in DOMAIN reg.cmds /\ <<"chat">> \notin AppCmds
    BY <1>1, <2>1 DEF EnvInv, Clash
  <2>3. reg.cmds[<<"chat">>].owner = "framework"
    BY <1>2, <2>2, RegistryFacts DEF AppCmds, CommandSet
  <2> QED BY <1>1, <2>2, <2>3 DEF EnvInv, VariablesAreListed
<1>5. env \cup Declared \cup ChatVariables = env
  BY <1>3, <1>4
<1>6. ~VariablesRefused
  BY <1>3, <1>5 DEF VariablesRefused, EnvInv
<1> QED BY <1>1, <1>6 DEF EnvInv

\* An app that keeps clear of the names builds, with everything it asked for.
LEMMA ClearAppsBuild ==
    ASSUME AppInv, EnvInv
    PROVE  ClearAppGetsItsCommands
<1>1. ASSUME ~Clash, stage = "built"
      PROVE  Wanted \subseteq DOMAIN reg.cmds
  <2>1. Got
    BY <1>1 DEF AppInv, AfterChecks, AfterTelemetry, AfterSelf
  <2> QED BY <1>1, <2>1, WantedIsPlaced DEF Got
<1> QED BY <1>1, NothingIsLetPass DEF ClearAppGetsItsCommands, AppInv, FailedForAReason

\* The names build panics over.
LEMMA PanicsAreOverTwoNames ==
    ASSUME AppInv
    PROVE  PanicsOnlyOverChatAndMcp
BY DEF AppInv, Taken, PanicsOnlyOverChatAndMcp

\* What is not the app's is the framework's.
LEMMA OursAreTheFrameworks ==
    ASSUME AppInv
    PROVE  \A p : p \in DOMAIN reg.cmds \ AppCmds <=> FrameworkCommand(p)
<1>1. \A p \in DOMAIN reg.cmds : reg.cmds[p].owner \in {"app", "framework"}
  BY RegistryFacts DEF AppInv, BaseInv, CommandSet
<1> QED BY <1>1 DEF AppCmds, FrameworkCommand

\* What the snapshots do not have is registered after them.
LEMMA SnapshotsKnowTheCommands ==
    ASSUME AppInv
    PROVE  SnapshotsAreComplete
<1> SUFFICES ASSUME stage = "built"
             PROVE  SnapshotsAreComplete
  BY DEF SnapshotsAreComplete
<1>1. Snapshots
  BY DEF AppInv, AfterChecks, AfterTelemetry, AfterSelf
<1>2. stage \in AfterCompletion /\ stage \in AfterMcpServe
  BY DEF AfterCompletion, AfterMcpServe
<1>3. \A p \in McpNames : p[1] = "mcp"
  <2>1. \A e : <<"mcp", e>>[1] = "mcp"
    OBVIOUS
  <2> QED BY <2>1, Zenon DEF McpNames
<1>4. <<"mcp", "serve">> \in DOMAIN reg.cmds \ AppCmds =>
        \A p \in DOMAIN reg.cmds \ sees.mcp : p[1] = "mcp" /\ p \in DOMAIN reg.cmds \ AppCmds
  BY <1>1, <1>2, <1>3, OursAreTheFrameworks DEF Snapshots
<1>5. opts.completion =>
        \A p \in DOMAIN reg.cmds \ sees.completion :
          p \in DOMAIN reg.cmds \ AppCmds /\ (p[1] = "mcp" \/ is_framework_completion(reg, p))
  BY <1>1, <1>2, <1>3, OursAreTheFrameworks DEF Snapshots, is_framework_completion
<1> QED BY <1>4, <1>5 DEF SnapshotsAreComplete

\* What is above a name of the framework in a root group.
LEMMA AboveALeaf ==
    ASSUME opts \in OptSet, NEW g \in {<<"auth">>, <<"config">>, <<"telemetry">>, <<"mcp">>},
           NEW leaves \in SUBSET Segments, NEW p \in Under(g, leaves)
    PROVE  p[1] = g[1] /\ push(opts.ns, "self") \notin Ancestors(p)
<1>1. g \in Paths /\ g \in Seq(Segments) /\ Ancestors(g) = {} /\ "self" \in Segments
      /\ leaf(g) \in {"auth", "config", "telemetry", "mcp"}
  BY Shapes, Literals
<1>2. PICK l \in leaves : p = push(g, l)
  BY DEF Under
<1>3. p \in Seq(Segments) /\ l \in Segments /\ g # <<>>
  BY <1>1, <1>2, PushFacts, PathFacts DEF Paths
<1>4. p[1] = g[1]
  BY <1>1, <1>2, <1>3, FirstSegment
<1>5. push(opts.ns, "self") \in Seq(Segments) /\ push(opts.ns, "self") \in Paths
      /\ leaf(push(opts.ns, "self")) = "self"
  BY <1>1, Shapes
<1>6. push(opts.ns, "self") \in Ancestors(p) =>
        push(opts.ns, "self") = g \/ Below(push(opts.ns, "self"), g)
  BY <1>1, <1>2, <1>3, <1>5, AncestorsFacts, BelowPush
<1>7. ~Below(push(opts.ns, "self"), g)
  BY <1>1, <1>5, AncestorsFacts
<1>8. push(opts.ns, "self") # g
  BY <1>1, <1>5
<1> QED BY <1>4, <1>6, <1>7, <1>8

\* A service is given none of the commands of an end user.
LEMMA ServicesHaveNoEndUserCommands ==
    ASSUME AppInv
    PROVE  ServiceHasNoEndUserCommands
<1> SUFFICES ASSUME stage = "built", (opts.legacy /\ ~opts.explicit) \/ ~opts.end_user,
                    NEW p \in DOMAIN reg.cmds \ AppCmds
             PROVE  /\ p[1] = "telemetry" => p \in {push(opts.ns, c) : c \in {"spec", "doctor", "completion"}}
                    /\ push(opts.ns, "self") \notin Ancestors(p)
  BY DEF ServiceHasNoEndUserCommands
<1>1. opts \in OptSet /\ Deployed /\ SelfOfAnEndUser /\ Origins
  BY DEF AppInv, BaseInv, AfterChecks, AfterTelemetry, AfterSelf
<1>2. ~opts.end_user /\ opts.self = "none"
  BY <1>1 DEF Deployed, SelfOfAnEndUser
<1>3. Placed(p)
  BY <1>1, OursAreTheFrameworks DEF Origins
<1> DEFINE self == push(opts.ns, "self")
<1>4. /\ "chat" \in Segments /\ "self" \in Segments /\ "spec" \in Segments /\ "doctor" \in Segments
      /\ "completion" \in Segments /\ AuthLeaves \in SUBSET Segments /\ ConfigLeaves \in SUBSET Segments
      /\ {"serve", "install", "list"} \in SUBSET Segments
  BY Literals
<1>5. ASSUME NEW x \in Segments
      PROVE  self \notin Ancestors(push(opts.ns, x))
  <2>1. /\ opts.ns \in Seq(Segments) /\ self \in Seq(Segments) /\ push(opts.ns, x) \in Seq(Segments)
        /\ Len(opts.ns) \in Nat /\ Len(self) = Len(opts.ns) + 1 /\ Len(push(opts.ns, x)) = Len(opts.ns) + 1
    BY <1>1, <1>4, Shapes, PushFacts, LenProperties
  <2> HIDE DEF self
  <2>2. ~(Len(self) < Len(push(opts.ns, x)))
    BY <2>1
  <2> QED BY <2>1, <2>2, AncestorsFacts DEF Below
<1> HIDE DEF self
<1>6. p \in {push(opts.ns, c) : c \in {"spec", "doctor", "completion"}}
      \/ p = <<"chat">> \/ p \in Under(<<"auth">>, AuthLeaves) \/ p \in Under(<<"config">>, ConfigLeaves)
      \/ p \in McpNames
  BY <1>2, <1>3 DEF Placed, McpNames
<1>7. CASE p \in {push(opts.ns, c) : c \in {"spec", "doctor", "completion"}}
  BY <1>4, <1>5, <1>7 DEF self
<1>8. CASE p = <<"chat">>
  <2>1. Ancestors(<<"chat">>) = {}
    BY <1>1, Shapes
  <2>2. \A e : <<e>>[1] = e
    OBVIOUS
  <2>3. p[1] = "chat"
    BY <1>8, <2>2, Zenon
  <2> QED BY <1>8, <2>1, <2>3
<1>9. CASE p \in Under(<<"auth">>, AuthLeaves) \/ p \in Under(<<"config">>, ConfigLeaves) \/ p \in McpNames
  <2>1. \A e : <<e>>[1] = e
    OBVIOUS
  <2>2. McpNames \subseteq Under(<<"mcp">>, {"serve", "install", "list"})
    BY Literals DEF Under, McpNames
  <2>3. (p[1] = "auth" \/ p[1] = "config" \/ p[1] = "mcp") /\ push(opts.ns, "self") \notin Ancestors(p)
    <3>1. CASE p \in Under(<<"auth">>, AuthLeaves)
      BY <1>1, <1>4, <2>1, <3>1, AboveALeaf
    <3>2. CASE p \in Under(<<"config">>, ConfigLeaves)
      BY <1>1, <1>4, <2>1, <3>2, AboveALeaf
    <3>3. CASE p \in McpNames
      BY <1>1, <1>4, <2>1, <2>2, <3>3, AboveALeaf
    <3> QED BY <1>9, <3>1, <3>2, <3>3
  <2> QED BY <2>3
<1> QED BY <1>6, <1>7, <1>8, <1>9

\* The walk over a name of the completion model ends at it.
LEMMA OfferedNamesParse ==
    ASSUME AppInv
    PROVE  CompletionOffersParse
<1> SUFFICES ASSUME NEW p \in build_completion_model(reg), p \in DOMAIN reg.cmds \/ path_has_descendants(reg, p)
             PROVE  parse_with_clap(reg, [words |-> p, flag |-> "none"]).kind
                      \in {"Parsed", "HelpShown", "E_MISSING_REQUIRED"}
  BY DEF CompletionOffersParse
<1>1. reg \in RegistrySet /\ Unambiguous(reg)
  BY DEF AppInv, BaseInv
<1>2. p \in Paths
  <2>1. \A q \in DOMAIN reg.cmds \cup reg.groups : q \in Paths /\ q \in Seq(Segments)
    BY <1>1, RegistryFacts, PathFacts
  <2>2. \A q \in DOMAIN reg.cmds \cup reg.groups : \A n \in Ancestors(q) : n \in Paths
    BY <2>1, AncestorsFacts
  <2> QED BY <2>1, <2>2 DEF build_completion_model
<1>3. CASE p \in DOMAIN reg.cmds
  <2>1. leaf(p) \in WordsFor(reg, p) /\ leaf(p) \in Segments /\ p = push(Front(p), leaf(p)) /\ Len(p) \in Nat
    BY <1>2, PathFacts DEF WordsFor
  <2>2. Walk(reg, p) = [at |-> p, kind |-> "leaf", more |-> Len(p)]
    BY <1>1, <1>3, <2>1, WalkToCommand
  <2> QED BY <2>1, <2>2 DEF parse_with_clap
<1>4. CASE path_has_descendants(reg, p)
  <2>1. Walk(reg, p) = [at |-> p, kind |-> "group", more |-> Len(p)]
    BY <1>1, <1>2, <1>4, WalkToGroup DEF IsGroup
  <2> QED BY <2>1 DEF parse_with_clap
<1> QED BY <1>3, <1>4

\* Unless the app took a name of the framework's, build returns an app with
\* every command its options ask for or fails for one of the reasons that
\* ClearAppGetsItsCommands names, and lets none of these pass; the variables it
\* lists are those that were declared; build panics only over two names; the
\* snapshots, the deployment and the completion scripts agree with what is
\* registered (AppBuilder::build, register_*_commands, register_if_absent,
\* build_completion_model).
THEOREM TheBuiltAppIsComplete == AppSpec => []BuildIsComplete
<1>1. AppInv /\ EnvInv => BuildIsComplete
  <2>1. EnvInv => VariablesAreListed
    BY DEF EnvInv
  <2> QED BY <2>1, ClearAppsBuild, PanicsAreOverTwoNames, SnapshotsKnowTheCommands,
             ServicesHaveNoEndUserCommands, OfferedNamesParse DEF BuildIsComplete
<1> QED BY <1>1, AppIsSound, EnvHolds, PTL

-----------------------------------------------------------------------------
(* The arguments.                                                          *)

\* What validation asks of a value that is there.
Accepted(a, v) == value_matches_type(v, a.type) /\ ~OutOfRange(a, v) /\ ~PatternFails(a, v)

\* Every item of an array that is something has the type.
AllTyped(j, type) ==
  \A i \in 1 .. Len(j.items) : j.items[i].kind \in {"null", "object"} \/ Typed(j.items[i], type)

\* The arguments that are compared.
LEMMA ArgFacts ==
    ASSUME NEW a \in ArgSet
    PROVE  /\ a.kind \in {"Flag", "Option", "Positional"} /\ a.card \in {"Required", "Optional", "Repeated"}
           /\ a.type \in {"Bool", "String", "Int", "Float", "Enum"} /\ a.pattern \in BOOLEAN
           /\ a.min_occurs \in Nat /\ a.min \in Int /\ a.max \in Int
           /\ a.conflicts = {} /\ a.requires = {} /\ (a.kind = "Flag" => a.type = "Bool")
BY DEF ArgSet

\* A value that is there is refused for what it is, and for nothing else; none
\* is refused when the argument is required.
LEMMA ValidatedAlone ==
    ASSUME NEW a \in ArgSet, NEW v
    PROVE  validate_typed_args({a}, [n \in {a.name} |-> v]) = {} <=>
             IF v = NoValue THEN a.card # "Required" ELSE Accepted(a, v)
<1> DEFINE args == [n \in {a.name} |-> v]
<1>1. a.name \in DOMAIN args /\ args[a.name] = v
  OBVIOUS
<1>2. a.conflicts = {} /\ a.requires = {}
  BY ArgFacts
<1> HIDE DEF args
<1> DEFINE missing == {"E_MISSING_REQUIRED" : b \in {b \in {a} :
                         b.card = "Required" /\ ~(b.name \in DOMAIN args /\ args[b.name] # NoValue)}}
           invalid == {"E_INVALID_VALUE" : b \in {b \in {a} :
                         (b.name \in DOMAIN args /\ args[b.name] # NoValue)
                         /\ LET w == args[b.name]
                            IN ~value_matches_type(w, b.type) \/ OutOfRange(b, w) \/ PatternFails(b, w)}}
           conflict == {"E_CONFLICT" : b \in {b \in {a} :
                          (b.name \in DOMAIN args /\ args[b.name] # NoValue)
                          /\ \E c \in b.conflicts : c \in DOMAIN args /\ args[c] # NoValue}}
           requires == {"E_UNSATISFIED_REQUIRES" : b \in {b \in {a} :
                          (b.name \in DOMAIN args /\ args[b.name] # NoValue)
                          /\ \E d \in b.requires : ~(d \in DOMAIN args /\ args[d] # NoValue)}}
<1>3. validate_typed_args({a}, args) = missing \cup invalid \cup conflict \cup requires
  BY DEF validate_typed_args
<1>4. conflict = {} /\ requires = {}
  BY <1>2
<1>5. missing = {} <=> ~(a.card = "Required" /\ v = NoValue)
  BY <1>1
<1>6. invalid = {} <=> v = NoValue \/ Accepted(a, v)
  BY <1>1 DEF Accepted
<1> HIDE DEF missing, invalid, conflict, requires
<1>7. validate_typed_args({a}, args) = {} <=> missing = {} /\ invalid = {}
  BY <1>3, <1>4
<1> QED BY <1>5, <1>6, <1>7 DEF args

\* The numbers are integers.
LEMMA NumberFacts == \A t \in Numeric : Number(t) \in Int
BY DEF Numeric, Whole, Fits, Number

\* What the JSON of one value becomes, and the type it has.
LEMMA JsonFacts ==
    ASSUME NEW j \in JsonScalars \cup NullsAndObjects
    PROVE  /\ j.kind # "array" /\ json_value_to_arg_value(j) = ScalarArg(j)
           /\ j.kind = "boolean" => ScalarArg(j) = Value("Bool", j.token)
           /\ j.kind = "string" => ScalarArg(j) = Value("Str", j.token)
           /\ j.kind = "number" => /\ j.token \in Numeric
                                   /\ j.token \in Fits => ScalarArg(j) = Value("Int", j.token)
                                   /\ j.token \notin Fits => ScalarArg(j) = Value("Float", j.token)
           /\ j \in JsonScalars <=> j.kind \in {"string", "number", "boolean"}
           /\ j \in NullsAndObjects <=> j.kind \in {"null", "object"}
           /\ j \in NullsAndObjects <=> ScalarArg(j) = NoValue
<1>1. /\ j \in JsonScalars => j.kind \in {"string", "number", "boolean"}
      /\ j \in NullsAndObjects => j.kind \in {"null", "object"}
      /\ j.kind = "number" => j.token \in Numeric
  BY DEF JsonScalars, NullsAndObjects
<1>2. /\ j.kind = "boolean" => ScalarArg(j) = Value("Bool", j.token)
      /\ j.kind = "string" => ScalarArg(j) = Value("Str", j.token)
      /\ j.kind = "number" /\ j.token \in Fits => ScalarArg(j) = Value("Int", j.token)
      /\ j.kind = "number" /\ j.token \notin Fits => ScalarArg(j) = Value("Float", j.token)
      /\ j.kind \in {"null", "object"} => ScalarArg(j) = NoValue
  BY DEF ScalarArg
<1>3. \A type \in {"Bool", "Str", "Int", "Float"} : \A t : Value(type, t) # NoValue
  BY DEF Value, NoValue
<1>4. json_value_to_arg_value(j) = ScalarArg(j)
  BY <1>1 DEF json_value_to_arg_value
<1> QED BY <1>1, <1>2, <1>3, <1>4

\* A value of one scalar matches a type or not.
LEMMA MatchFacts ==
    ASSUME NEW t, NEW type \in {"Bool", "String", "Int", "Float", "Enum"}
    PROVE  /\ ScalarMatches(Value("Bool", t), type) <=> type = "Bool"
           /\ ScalarMatches(Value("Str", t), type) <=> type = "String"
           /\ ScalarMatches(Value("Int", t), type) <=> type = "Int"
           /\ ScalarMatches(Value("Float", t), type) <=> type = "Float"
           /\ ScalarMatches(Value("Enum", t), type) <=> type = "Enum"
           /\ ScalarMatches(Value("Count", t), type)
<1>1. \A k \in {"Bool", "Str", "Int", "Float", "Enum", "Count"} : Value(k, t).type = k
  BY DEF Value
<1> QED BY <1>1 DEF ScalarMatches

\* The JSON of one value has the type when its value matches.
LEMMA TypedIsMatched ==
    ASSUME NEW j \in JsonScalars, NEW type \in {"Bool", "String", "Int", "Float", "Enum"}
    PROVE  Typed(j, type) <=> ScalarMatches(ScalarArg(j), type)
<1>1. j.kind \in {"string", "number", "boolean"}
  BY JsonFacts
<1>2. CASE j.kind = "boolean"
  BY <1>2, JsonFacts, MatchFacts DEF Typed
<1>3. CASE j.kind = "string"
  BY <1>3, JsonFacts, MatchFacts DEF Typed
<1>4. CASE j.kind = "number" /\ j.token \in Fits
  BY <1>4, JsonFacts, MatchFacts DEF Typed
<1>5. CASE j.kind = "number" /\ j.token \notin Fits
  BY <1>5, JsonFacts, MatchFacts DEF Typed
<1> QED BY <1>1, <1>2, <1>3, <1>4, <1>5

\* What is accepted, by the kind of the value.
LEMMA AcceptedFacts ==
    ASSUME NEW a \in ArgSet, NEW t
    PROVE  /\ Accepted(a, Value("Bool", t)) <=> a.type = "Bool"
           /\ Accepted(a, Value("Str", t)) <=> a.type = "String" /\ (a.pattern => Matches(t))
           /\ t \in Numeric => (Accepted(a, Value("Int", t)) <=> a.type = "Int" /\ Number(t) \in a.min .. a.max)
           /\ t \in Numeric => (Accepted(a, Value("Float", t)) <=> a.type = "Float" /\ Number(t) \in a.min .. a.max)
           /\ Accepted(a, Value("Count", t))
<1>1. /\ a.type \in {"Bool", "String", "Int", "Float", "Enum"} /\ a.pattern \in BOOLEAN
      /\ a.min \in Int /\ a.max \in Int
  BY ArgFacts
<1>2. \A type \in {"Bool", "Str", "Int", "Float", "Count"} :
        Value(type, t).type = type /\ Value(type, t).token = t
  BY DEF Value
<1>3. /\ value_matches_type(Value("Bool", t), a.type) <=> a.type = "Bool"
      /\ value_matches_type(Value("Str", t), a.type) <=> a.type = "String"
      /\ value_matches_type(Value("Int", t), a.type) <=> a.type = "Int"
      /\ value_matches_type(Value("Float", t), a.type) <=> a.type = "Float"
      /\ value_matches_type(Value("Count", t), a.type)
  BY <1>1, <1>2, MatchFacts DEF value_matches_type
<1>4. /\ ~OutOfRange(a, Value("Bool", t)) /\ ~OutOfRange(a, Value("Str", t)) /\ ~OutOfRange(a, Value("Count", t))
      /\ t \in Numeric =>
           /\ ~OutOfRange(a, Value("Int", t)) <=> Number(t) \in a.min .. a.max
           /\ ~OutOfRange(a, Value("Float", t)) <=> Number(t) \in a.min .. a.max
  <2>1. t \in Numeric => Number(t) \in Int
    BY NumberFacts
  <2>2. t \in Numeric => (Number(t) \in a.min .. a.max <=> ~(Number(t) < a.min \/ Number(t) > a.max))
    BY <1>1, <2>1
  <2>3. t \in Numeric => t # "NaN"
    BY DEF Numeric, Whole, Fits
  <2> QED BY <1>2, <2>2, <2>3 DEF OutOfRange
<1>5. /\ ~PatternFails(a, Value("Bool", t)) /\ ~PatternFails(a, Value("Int", t))
      /\ ~PatternFails(a, Value("Float", t)) /\ ~PatternFails(a, Value("Count", t))
      /\ PatternFails(a, Value("Str", t)) <=> a.pattern /\ ~Matches(t)
  BY <1>1, <1>2 DEF PatternFails
<1> QED BY <1>3, <1>4, <1>5 DEF Accepted

\* A list is accepted when its items match, whatever the bounds.
LEMMA AcceptedLists ==
    ASSUME NEW a, NEW S
    PROVE  /\ Accepted(a, List(S)) <=> \A w \in S : ScalarMatches(w, a.type)
           /\ List(S) # NoValue
<1>1. List(S).type = "List" /\ List(S).items = S /\ NoValue.type # "List"
  BY DEF List, NoValue
<1> QED BY <1>1 DEF Accepted, value_matches_type, OutOfRange, PatternFails

\* What MCP asks: what was published must be found, and be accepted.
LEMMA McpAsks ==
    ASSUME NEW a \in ArgSet, NEW j \in JsonSet
    PROVE  /\ ~Found(a) \/ j = NotGiven \/ j \in NullsAndObjects => (McpAccepts(a, j) <=> a.card # "Required")
           /\ Found(a) /\ j \in JsonScalars => (McpAccepts(a, j) <=> Accepted(a, ScalarArg(j)))
           /\ Found(a) /\ j.kind = "array" => (McpAccepts(a, j) <=> AllTyped(j, a.type))
<1> DEFINE object == [m \in (IF j = NotGiven THEN {} ELSE {Long(a)}) |-> j]
           v == json_value_to_typed_map(object, a.name)
<1>1. McpAccepts(a, j) <=> IF v = NoValue THEN a.card # "Required" ELSE Accepted(a, v)
  <2>1. [n \in {a.name} |-> json_value_to_typed_map(object, n)] = [n \in {a.name} |-> v]
    OBVIOUS
  <2>2. McpAccepts(a, j) <=> validate_typed_args({a}, [n \in {a.name} |-> v]) = {}
    BY <2>1 DEF McpAccepts
  <2> HIDE DEF v
  <2> QED BY <2>2, ValidatedAlone
<1>2. ~Found(a) \/ j = NotGiven => v = NoValue
  BY DEF json_value_to_typed_map, Found
<1>3. Found(a) /\ j # NotGiven => v = json_value_to_arg_value(j)
  BY DEF json_value_to_typed_map, Found
<1>4. /\ j \in JsonScalars \cup NullsAndObjects => j # NotGiven
      /\ j.kind = "array" => j # NotGiven
  BY DEF JsonScalars, NullsAndObjects, NotGiven, Json
<1> HIDE DEF v
<1>5. CASE ~Found(a) \/ j = NotGiven
  <2>1. McpAccepts(a, j) <=> a.card # "Required"
    BY <1>1, <1>2, <1>5
  <2> QED BY <1>4, <1>5, <2>1
<1>6. CASE Found(a) /\ j \in JsonScalars \cup NullsAndObjects
  <2>1. v = ScalarArg(j) /\ j.kind # "array" /\ (j \in NullsAndObjects <=> ScalarArg(j) = NoValue)
        /\ ~(j \in JsonScalars /\ j \in NullsAndObjects)
    BY <1>3, <1>4, <1>6, JsonFacts
  <2> QED BY <1>1, <1>4, <1>6, <2>1
<1>7. CASE Found(a) /\ j.kind = "array"
  <2> DEFINE S == {ScalarArg(j.items[i]) : i \in 1 .. Len(j.items)} \ {NoValue}
  <2>1. v = List(S)
    BY <1>3, <1>4, <1>7 DEF json_value_to_arg_value
  <2>2. McpAccepts(a, j) <=> \A w \in S : ScalarMatches(w, a.type)
    <3> HIDE DEF S
    <3> QED BY <1>1, <2>1, AcceptedLists
  <2>3. j.items \in Seq(JsonScalars \cup NullsAndObjects)
    <3>1. j \notin JsonScalars \cup NullsAndObjects
      BY <1>7, JsonFacts
    <3> QED BY <1>4, <1>7, <3>1 DEF JsonSet
  <2>4. ASSUME NEW i \in 1 .. Len(j.items)
        PROVE  (ScalarArg(j.items[i]) = NoValue \/ ScalarMatches(ScalarArg(j.items[i]), a.type))
               <=> (j.items[i].kind \in {"null", "object"} \/ Typed(j.items[i], a.type))
    <3>1. j.items[i] \in JsonScalars \cup NullsAndObjects
      BY <2>3
    <3>2. a.type \in {"Bool", "String", "Int", "Float", "Enum"}
      BY ArgFacts
    <3> QED BY <3>1, <3>2, JsonFacts, TypedIsMatched
  <2>5. (\A w \in S : ScalarMatches(w, a.type)) <=> AllTyped(j, a.type)
    BY <2>4 DEF AllTyped
  <2>6. j \notin JsonScalars \cup NullsAndObjects
    BY <1>7, JsonFacts
  <2> QED BY <1>4, <1>7, <2>2, <2>5, <2>6
<1>8. j = NotGiven \/ j \in JsonScalars \cup NullsAndObjects \/ j.kind = "array"
  BY DEF JsonSet
<1> QED BY <1>5, <1>6, <1>7, <1>8

\* What the published property is.
LEMMA PropertyFacts ==
    ASSUME NEW a \in ArgSet
    PROVE  LET p == to_json_schema_property(a)
           IN /\ p.required <=> is_schema_required(a)
              /\ p.items \in Nat
              /\ p.enum <=> a.card # "Repeated" /\ a.type = "Enum"
              /\ p.bounds <=> a.card # "Repeated" /\ a.type \in {"Int", "Float"}
              /\ p.pattern <=> a.card # "Repeated" /\ a.type = "String" /\ a.pattern
              /\ a.card = "Repeated" /\ a.kind = "Flag" => p.type = "integer"
              /\ a.card = "Repeated" /\ a.kind # "Flag" => p.type = "array"
              /\ a.card # "Repeated" /\ a.type = "Bool" => p.type = "boolean"
              /\ a.card # "Repeated" /\ a.type \in {"String", "Enum"} => p.type = "string"
              /\ a.card # "Repeated" /\ a.type = "Int" => p.type = "integer"
              /\ a.card # "Repeated" /\ a.type = "Float" => p.type = "number"
<1> DEFINE p == to_json_schema_property(a)
<1>1. a.min_occurs \in Nat /\ a.pattern \in BOOLEAN
  BY ArgFacts
<1>2. /\ p.type = (CASE a.card = "Repeated" /\ a.kind = "Flag" -> "integer"
                     [] a.card = "Repeated" /\ a.kind # "Flag" -> "array"
                     [] a.card # "Repeated" /\ a.type = "Bool" -> "boolean"
                     [] a.card # "Repeated" /\ a.type \in {"String", "Enum"} -> "string"
                     [] a.card # "Repeated" /\ a.type = "Int" -> "integer"
                     [] a.card # "Repeated" /\ a.type = "Float" -> "number")
      /\ p.enum = (a.card # "Repeated" /\ a.type = "Enum")
      /\ p.bounds = (a.card # "Repeated" /\ a.type \in {"Int", "Float"})
      /\ p.pattern = (a.card # "Repeated" /\ a.type = "String" /\ a.pattern)
      /\ p.items = (IF a.min_occurs >= 1 THEN a.min_occurs ELSE 0)
      /\ p.required = is_schema_required(a)
  BY DEF to_json_schema_property
<1> HIDE DEF p
<1>3. p.items \in Nat
  BY <1>1, <1>2
<1>4. /\ a.card = "Repeated" /\ a.kind = "Flag" => p.type = "integer"
      /\ a.card = "Repeated" /\ a.kind # "Flag" => p.type = "array"
      /\ a.card # "Repeated" /\ a.type = "Bool" => p.type = "boolean"
      /\ a.card # "Repeated" /\ a.type \in {"String", "Enum"} => p.type = "string"
      /\ a.card # "Repeated" /\ a.type = "Int" => p.type = "integer"
      /\ a.card # "Repeated" /\ a.type = "Float" => p.type = "number"
  BY <1>2
<1> QED BY <1>2, <1>3, <1>4 DEF p

\* What the schema allows, by what the argument is.
LEMMA SchemaFacts ==
    ASSUME NEW a \in ArgSet, NEW j \in JsonSet
    PROVE  LET allows == SchemaAllows(to_json_schema_property(a), a, j)
           IN /\ j = NotGiven => (allows <=> ~is_schema_required(a))
              /\ j # NotGiven /\ a.card = "Repeated" /\ a.kind = "Flag" => (allows => j.kind = "number")
              /\ j # NotGiven /\ a.card = "Repeated" /\ a.kind # "Flag" =>
                   /\ allows => /\ j.kind = "array"
                                /\ \A i \in 1 .. Len(j.items) : j.items[i].kind = "string"
              /\ j # NotGiven /\ a.card # "Repeated" =>
                   /\ a.type = "Bool" => (allows <=> j.kind = "boolean")
                   /\ a.type = "String" => (allows <=> j.kind = "string" /\ (a.pattern => Matches(j.token)))
                   /\ a.type = "Enum" => (allows => j.kind = "string")
                   /\ a.type = "Int" => (allows <=>
                        j.kind = "number" /\ j.token \in Whole /\ Number(j.token) \in a.min .. a.max)
                   /\ a.type = "Float" => (allows <=>
                        j.kind = "number" /\ Number(j.token) \in a.min .. a.max)
<1> DEFINE p == to_json_schema_property(a)
<1>1. /\ p.required <=> is_schema_required(a)
      /\ p.enum <=> a.card # "Repeated" /\ a.type = "Enum"
      /\ p.bounds <=> a.card # "Repeated" /\ a.type \in {"Int", "Float"}
      /\ p.pattern <=> a.card # "Repeated" /\ a.type = "String" /\ a.pattern
      /\ a.card = "Repeated" /\ a.kind = "Flag" => p.type = "integer"
      /\ a.card = "Repeated" /\ a.kind # "Flag" => p.type = "array"
      /\ a.card # "Repeated" /\ a.type = "Bool" => p.type = "boolean"
      /\ a.card # "Repeated" /\ a.type \in {"String", "Enum"} => p.type = "string"
      /\ a.card # "Repeated" /\ a.type = "Int" => p.type = "integer"
      /\ a.card # "Repeated" /\ a.type = "Float" => p.type = "number"
  BY PropertyFacts
<1> HIDE DEF p
<1> DEFINE allows == SchemaAllows(p, a, j)
<1>2. j = NotGiven => (allows <=> ~is_schema_required(a))
  BY <1>1 DEF SchemaAllows
<1>3. ASSUME j # NotGiven
      PROVE  /\ p.type = "boolean" => (allows <=> j.kind = "boolean")
             /\ p.type = "integer" /\ p.bounds =>
                  (allows <=> j.kind = "number" /\ j.token \in Whole /\ Number(j.token) \in a.min .. a.max)
             /\ p.type = "integer" /\ ~p.bounds => (allows => j.kind = "number")
             /\ p.type = "number" => (allows <=> j.kind = "number" /\ Number(j.token) \in a.min .. a.max)
             /\ p.type = "string" => (allows <=> j.kind = "string" /\ (p.enum => j.token \in Variants)
                                                 /\ (p.pattern => Matches(j.token)))
             /\ p.type = "array" => (allows => /\ j.kind = "array"
                                               /\ \A i \in 1 .. Len(j.items) : j.items[i].kind = "string")
  BY <1>3 DEF SchemaAllows
<1> HIDE DEF allows
<1>4. j # NotGiven /\ a.card = "Repeated" => ~p.bounds
  BY <1>1
<1>5. ASSUME j # NotGiven, a.card # "Repeated"
      PROVE  /\ a.type = "Bool" => (allows <=> j.kind = "boolean")
             /\ a.type = "String" => (allows <=> j.kind = "string" /\ (a.pattern => Matches(j.token)))
             /\ a.type = "Enum" => (allows => j.kind = "string")
             /\ a.type = "Int" => (allows <=>
                  j.kind = "number" /\ j.token \in Whole /\ Number(j.token) \in a.min .. a.max)
             /\ a.type = "Float" => (allows <=> j.kind = "number" /\ Number(j.token) \in a.min .. a.max)
  <2>1. CASE a.type = "Bool"
    BY <1>1, <1>3, <1>5, <2>1
  <2>2. CASE a.type = "String"
    BY <1>1, <1>3, <1>5, <2>2
  <2>3. CASE a.type = "Enum"
    BY <1>1, <1>3, <1>5, <2>3
  <2>4. CASE a.type = "Int"
    BY <1>1, <1>3, <1>5, <2>4
  <2>5. CASE a.type = "Float"
    BY <1>1, <1>3, <1>5, <2>5
  <2>6. a.type \in {"Bool", "String", "Int", "Float", "Enum"}
    BY ArgFacts
  <2> QED BY <2>1, <2>2, <2>3, <2>4, <2>5, <2>6
<1> QED BY <1>1, <1>2, <1>3, <1>4, <1>5 DEF p, allows

\* An array of strings is taken for a list when they are strings that are asked.
LEMMA ArraysOfStrings ==
    ASSUME NEW j, \A i \in 1 .. Len(j.items) : j.items[i].kind = "string",
           NEW type \in {"Bool", "String", "Int", "Float", "Enum"}, j.items \in Seq(JsonScalars \cup NullsAndObjects)
    PROVE  AllTyped(j, type) <=> type = "String" \/ j.items = <<>>
<1>1. j.items # <<>> => 1 \in 1 .. Len(j.items)
  <2> DEFINE s == j.items
  <2>1. s \in Seq(JsonScalars \cup NullsAndObjects)
    OBVIOUS
  <2> HIDE DEF s
  <2>2. s # <<>> => 1 \in 1 .. Len(s)
    BY <2>1
  <2> QED BY <2>2 DEF s
<1>2. j.items = <<>> => 1 .. Len(j.items) = {}
  OBVIOUS
<1>3. \A i \in 1 .. Len(j.items) : Typed(j.items[i], type) <=> type = "String"
  BY DEF Typed
<1> QED BY <1>1, <1>2, <1>3 DEF AllTyped

\* The schema says what the tool takes, but for what is withheld and what is
\* unpublished.
LEMMA SchemasAreExact ==
    ASSUME NEW a \in ArgSet, NEW j \in JsonSet
    PROVE  SchemaExact(a, j)
<1> DEFINE allows == SchemaAllows(to_json_schema_property(a), a, j)
<1>1. /\ a.kind \in {"Flag", "Option", "Positional"} /\ a.card \in {"Required", "Optional", "Repeated"}
      /\ a.type \in {"Bool", "String", "Int", "Float", "Enum"} /\ a.pattern \in BOOLEAN
      /\ a.min_occurs \in Nat /\ a.min \in Int /\ a.max \in Int
      /\ (a.kind = "Flag" => a.type = "Bool")
  BY ArgFacts
<1>2. CASE ~Found(a)
  BY <1>2, McpAsks DEF SchemaExact
<1>3. ASSUME Found(a), j = NotGiven
      PROVE  SchemaExact(a, j)
  <2>1. McpAccepts(a, j) <=> a.card # "Required"
    BY <1>3, McpAsks
  <2>2. allows <=> ~is_schema_required(a)
    BY <1>3, SchemaFacts
  <2>3. ~Withheld(a, j)
    BY <1>3 DEF Withheld
  <2>4. Unpublished(a, j) <=> a.card # "Required"
    <3>1. j.kind = "absent"
      BY <1>3 DEF NotGiven, Json
    <3> QED BY <3>1 DEF Unpublished
  <2> HIDE DEF allows
  <2>5. ~is_schema_required(a) => a.card # "Required"
    BY DEF is_schema_required
  <2> QED BY <1>3, <2>1, <2>2, <2>3, <2>4, <2>5 DEF SchemaExact, allows
<1>4. ASSUME Found(a), j \in NullsAndObjects
      PROVE  SchemaExact(a, j)
  <2>1. McpAccepts(a, j) <=> a.card # "Required"
    BY <1>4, McpAsks
  <2>2. j # NotGiven /\ j.kind \in {"null", "object"}
    BY <1>4 DEF NullsAndObjects, NotGiven, Json
  <2>3. ~allows
    BY <1>1, <2>2, SchemaFacts
  <2>4. Unpublished(a, j) <=> a.card # "Required"
    BY <2>2 DEF Unpublished
  <2> HIDE DEF allows
  <2> QED BY <1>4, <2>1, <2>3, <2>4 DEF SchemaExact, allows
<1>5. ASSUME Found(a), j.kind = "array"
      PROVE  SchemaExact(a, j)
  <2>1. McpAccepts(a, j) <=> AllTyped(j, a.type)
    BY <1>5, McpAsks
  <2>2. j # NotGiven /\ j.items \in Seq(JsonScalars \cup NullsAndObjects)
    <3>1. j # NotGiven
      BY <1>5 DEF NotGiven, Json
    <3>2. j \notin JsonScalars \cup NullsAndObjects
      BY <1>5, JsonFacts
    <3> QED BY <3>1, <3>2 DEF JsonSet
  <2>3. Unpublished(a, j) <=> AllTyped(j, a.type)
    BY <1>5 DEF Unpublished, AllTyped
  <2>4. allows => /\ a.card = "Repeated" /\ a.kind # "Flag"
                  /\ \A i \in 1 .. Len(j.items) : j.items[i].kind = "string"
    BY <1>1, <1>5, <2>2, SchemaFacts
  <2>5. allows => (Withheld(a, j) <=> a.type # "String" /\ j.items # <<>>)
    <3> HIDE DEF allows
    <3> QED BY <2>2, <2>4 DEF Withheld
  <2>6. allows => (AllTyped(j, a.type) <=> a.type = "String" \/ j.items = <<>>)
    <3> HIDE DEF allows
    <3> QED BY <1>1, <2>2, <2>4, ArraysOfStrings
  <2> HIDE DEF allows
  <2> QED BY <1>5, <2>1, <2>3, <2>5, <2>6 DEF SchemaExact, allows
<1>6. ASSUME Found(a), j \in JsonScalars
      PROVE  SchemaExact(a, j)
  <2> DEFINE v == ScalarArg(j)
             inside == Number(j.token) \in a.min .. a.max
  <2>1. McpAccepts(a, j) <=> Accepted(a, v)
    BY <1>6, McpAsks
  <2>2. j # NotGiven /\ j.kind \in {"string", "number", "boolean"}
    BY <1>6 DEF JsonScalars, NotGiven, Json
  <2>3. j.kind = "number" => j.token \in Numeric
    BY <1>6, JsonFacts
  <2>4. /\ j.kind = "boolean" => (Accepted(a, v) <=> a.type = "Bool")
        /\ j.kind = "string" => (Accepted(a, v) <=> a.type = "String" /\ (a.pattern => Matches(j.token)))
        /\ j.kind = "number" /\ j.token \in Fits => (Accepted(a, v) <=> a.type = "Int" /\ inside)
        /\ j.kind = "number" /\ j.token \notin Fits => (Accepted(a, v) <=> a.type = "Float" /\ inside)
    <3> HIDE DEF v
    <3>1. /\ j.kind = "boolean" => v = Value("Bool", j.token)
          /\ j.kind = "string" => v = Value("Str", j.token)
          /\ j.kind = "number" /\ j.token \in Fits => v = Value("Int", j.token)
          /\ j.kind = "number" /\ j.token \notin Fits => v = Value("Float", j.token)
      BY <1>6, JsonFacts DEF v
    <3> QED BY <2>3, <3>1, AcceptedFacts
  <2> HIDE DEF v, inside
  <2>5. CASE a.card = "Repeated"
    <3>1. ~allows \/ (a.kind = "Flag" /\ j.kind = "number")
      BY <2>2, <2>5, SchemaFacts
    <3>2. a.kind = "Flag" => Withheld(a, j)
      BY <2>2, <2>5 DEF Withheld
    <3>3. Unpublished(a, j) <=> /\ Typed(j, a.type) /\ (j.kind = "number" => inside)
                                /\ (j.kind = "string" /\ a.pattern => Matches(j.token))
      BY <2>2, <2>5 DEF Unpublished, inside
    <3>4. Unpublished(a, j) <=> Accepted(a, v)
      BY <1>1, <2>2, <2>4, <3>3 DEF Typed
    <3>5. a.kind = "Flag" /\ j.kind = "number" => ~Accepted(a, v)
      BY <1>1, <2>4
    <3> HIDE DEF allows
    <3> QED BY <1>6, <2>1, <3>1, <3>2, <3>4, <3>5 DEF SchemaExact, allows
  <2>6. CASE a.card # "Repeated"
    <3>1. ~Unpublished(a, j)
      BY <2>2, <2>6 DEF Unpublished
    <3>2. Withheld(a, j) <=> \/ a.type = "Enum"
                             \/ a.type = "Int" /\ j.token \notin Fits
                             \/ a.type = "Float" /\ j.token \in Fits
      BY <2>2, <2>6 DEF Withheld
    <3>3. /\ a.type = "Bool" => (allows <=> j.kind = "boolean")
          /\ a.type = "String" => (allows <=> j.kind = "string" /\ (a.pattern => Matches(j.token)))
          /\ a.type = "Int" => (allows <=> j.kind = "number" /\ j.token \in Whole /\ inside)
          /\ a.type = "Float" => (allows <=> j.kind = "number" /\ inside)
      BY <2>2, <2>6, SchemaFacts DEF inside
    <3> HIDE DEF allows
    <3>4. Accepted(a, v) <=> allows /\ ~Withheld(a, j)
      <4>1. CASE a.type = "Bool"
        BY <2>2, <2>4, <3>2, <3>3, <4>1
      <4>2. CASE a.type = "String"
        BY <2>2, <2>4, <3>2, <3>3, <4>2
      <4>3. CASE a.type = "Int"
        <5>1. Fits \subseteq Whole
          BY DEF Whole
        <5> QED BY <2>2, <2>4, <3>2, <3>3, <4>3, <5>1
      <4>4. CASE a.type = "Float"
        BY <2>2, <2>4, <3>2, <3>3, <4>4
      <4>5. CASE a.type = "Enum"
        BY <2>2, <2>4, <3>2, <4>5
      <4> QED BY <1>1, <4>1, <4>2, <4>3, <4>4, <4>5
    <3> QED BY <1>6, <2>1, <3>1, <3>4 DEF SchemaExact, allows
  <2> QED BY <2>5, <2>6
<1>7. j = NotGiven \/ j \in JsonScalars \/ j \in NullsAndObjects \/ j.kind = "array"
  BY DEF JsonSet
<1> QED BY <1>2, <1>3, <1>4, <1>5, <1>6, <1>7

\* MCP refuses what the command line makes of the token for the type.
OnlyALine(type, token) == type = "Enum" \/ (type = "Float" /\ token \in Fits \cup {"NaN"})

\* One token is coerced to the value its JSON has, but for those.
LEMMA TokenFacts ==
    ASSUME NEW type \in {"Bool", "String", "Int", "Float", "Enum"}, NEW token \in Tokens
    PROVE  LET j == JsonScalar(type, token)
               v == coerce_value(token, type)
           IN /\ j \in JsonScalars
              /\ v # NoValue => ScalarMatches(v, type)
              /\ OnlyALine(type, token) => ~ScalarMatches(ScalarArg(j), type)
              /\ ~OnlyALine(type, token) =>
                   /\ v # NoValue => ScalarArg(j) = v
                   /\ v = NoValue => ~ScalarMatches(ScalarArg(j), type)
<1> DEFINE j == JsonScalar(type, token)
           v == coerce_value(token, type)
           same == /\ j \in JsonScalars
                   /\ v # NoValue => ScalarMatches(v, type)
                   /\ OnlyALine(type, token) => ~ScalarMatches(ScalarArg(j), type)
                   /\ ~OnlyALine(type, token) =>
                        /\ v # NoValue => ScalarArg(j) = v
                        /\ v = NoValue => ~ScalarMatches(ScalarArg(j), type)
<1>0. Fits \subseteq Numeric /\ "1" \in Fits /\ "0" \in Fits /\ "NaN" \notin Numeric
  BY DEF Fits, Whole, Numeric
<1>1. /\ type = "Bool" /\ token \in {"true", "1"} => v = Value("Bool", "true")
      /\ type = "Bool" /\ token \in {"false", "0"} => v = Value("Bool", "false")
      /\ type = "Bool" /\ token \notin {"true", "1", "false", "0"} => v = NoValue
      /\ type = "String" => v = Value("Str", token)
      /\ type = "Int" => v = IF token \in Fits THEN Value("Int", token) ELSE NoValue
      /\ type = "Float" => v = IF token \in Numeric \cup {"NaN"} THEN Value("Float", token) ELSE NoValue
      /\ type = "Enum" => v = IF token \in Variants THEN Value("Enum", token) ELSE NoValue
  BY DEF coerce_value
<1>2. /\ type = "Bool" /\ token \in {"true", "1"} => j = Json("boolean", "true")
      /\ type = "Bool" /\ token \in {"false", "0"} => j = Json("boolean", "false")
      /\ type \in {"Int", "Float"} /\ token \in Numeric => j = Json("number", token)
      /\ type = "Bool" /\ token \notin {"true", "1", "false", "0"} => j = Json("string", token)
      /\ type \in {"String", "Enum"} => j = Json("string", token)
      /\ type \in {"Int", "Float"} /\ token \notin Numeric => j = Json("string", token)
  BY DEF JsonScalar
<1> HIDE DEF j, v
<1>3. /\ Json("boolean", "true") \in JsonScalars /\ Json("boolean", "false") \in JsonScalars
      /\ Json("string", token) \in JsonScalars
      /\ token \in Numeric => Json("number", token) \in JsonScalars
  BY DEF Json, JsonScalars
<1>4. /\ ScalarArg(Json("boolean", "true")) = Value("Bool", "true")
      /\ ScalarArg(Json("boolean", "false")) = Value("Bool", "false")
      /\ ScalarArg(Json("string", token)) = Value("Str", token)
      /\ token \in Fits => ScalarArg(Json("number", token)) = Value("Int", token)
      /\ token \in Numeric \ Fits => ScalarArg(Json("number", token)) = Value("Float", token)
  BY DEF Json, ScalarArg
<1>5. \A t : /\ ScalarMatches(Value("Bool", t), type) <=> type = "Bool"
             /\ ScalarMatches(Value("Str", t), type) <=> type = "String"
             /\ ScalarMatches(Value("Int", t), type) <=> type = "Int"
             /\ ScalarMatches(Value("Float", t), type) <=> type = "Float"
             /\ ScalarMatches(Value("Enum", t), type) <=> type = "Enum"
  BY MatchFacts
<1>6. j \in JsonScalars
  BY <1>2, <1>3
<1>7. \A t : \A k \in {"Bool", "Str", "Int", "Float", "Enum"} : Value(k, t) # NoValue
  BY DEF Value, NoValue
<1>8. ASSUME type = "Bool"
       PROVE  same
  <2>1. ~OnlyALine(type, token)
    BY <1>8 DEF OnlyALine
  <2> QED BY <1>1, <1>2, <1>4, <1>5, <1>6, <1>7, <1>8, <2>1
<1>9. ASSUME type = "String"
       PROVE  same
  <2>1. ~OnlyALine(type, token)
    BY <1>9 DEF OnlyALine
  <2> QED BY <1>1, <1>2, <1>4, <1>5, <1>6, <1>7, <1>9, <2>1
<1>10. ASSUME type = "Int"
       PROVE  same
  <2>1. ~OnlyALine(type, token)
    BY <1>10 DEF OnlyALine
  <2> QED BY <1>0, <1>1, <1>2, <1>4, <1>5, <1>6, <1>7, <1>10, <2>1
<1>11. ASSUME type = "Float"
       PROVE  same
  <2>1. OnlyALine(type, token) <=> token \in Fits \cup {"NaN"}
    BY <1>11 DEF OnlyALine
  <2> QED BY <1>0, <1>1, <1>2, <1>4, <1>5, <1>6, <1>7, <1>11, <2>1
<1>12. ASSUME type = "Enum"
       PROVE  same
  <2>1. OnlyALine(type, token)
    BY <1>12 DEF OnlyALine
  <2> QED BY <1>1, <1>2, <1>4, <1>5, <1>6, <1>7, <1>12, <2>1
<1>13. same
  <2> HIDE DEF same
  <2> QED BY <1>8, <1>9, <1>10, <1>11, <1>12
<1> HIDE DEF same
<1> QED BY <1>13 DEF same, j, v

\* What the command line asks of one argument that is given.
LEMMA CliAsks ==
    ASSUME NEW a \in ArgSet, NEW given \in Seq(Tokens), given # <<>>,
           a.card = "Repeated" \/ Len(given) <= 1
    PROVE  /\ a.kind = "Flag" => CliAccepts(a, given)
           /\ a.kind # "Flag" /\ a.card = "Repeated" =>
                (CliAccepts(a, given) <=> \A i \in 1 .. Len(given) : coerce_value(given[i], a.type) # NoValue)
           /\ a.kind # "Flag" /\ a.card # "Repeated" =>
                (CliAccepts(a, given) <=> LET v == coerce_value(given[1], a.type)
                                          IN v # NoValue /\ Accepted(a, v))
<1> DEFINE items == {coerce_value(given[i], a.type) : i \in 1 .. Len(given)}
           first == coerce_value(given[1], a.type)
           typed == CASE given = <<>> -> NoValue
                      [] given # <<>> /\ a.kind = "Flag" ->
                           IF a.card = "Repeated" THEN Value("Count", "1") ELSE Value("Bool", "true")
                      [] given # <<>> /\ a.kind # "Flag" ->
                           IF a.card = "Repeated" THEN List(items) ELSE first
           bad == a.kind # "Flag" /\ NoValue \in items
           m == map_matches_to_typed_args(a, given)
<1>1. /\ a.kind \in {"Flag", "Option", "Positional"} /\ a.card \in {"Required", "Optional", "Repeated"}
      /\ a.type \in {"Bool", "String", "Int", "Float", "Enum"}
      /\ (a.kind = "Flag" => a.type = "Bool")
  BY ArgFacts
<1>2. m = IF bad THEN [ok |-> FALSE, value |-> NoValue]
          ELSE [ok |-> TRUE, value |-> IF typed = NoValue THEN a.default ELSE typed]
  BY DEF map_matches_to_typed_args
<1>3. /\ a.kind = "Flag" => typed = IF a.card = "Repeated" THEN Value("Count", "1") ELSE Value("Bool", "true")
      /\ a.kind # "Flag" => typed = IF a.card = "Repeated" THEN List(items) ELSE first
  BY <1>1
<1>4. /\ Len(given) \in Nat /\ Len(given) >= 1
      /\ a.card # "Repeated" => Len(given) = 1
  <2> DEFINE n == Len(given)
  <2>1. n \in Nat /\ n # 0
    BY EmptySeq
  <2>2. a.card = "Repeated" \/ n <= 1
    OBVIOUS
  <2> HIDE DEF n
  <2>3. n >= 1 /\ (a.card # "Repeated" => n = 1)
    BY <2>1, <2>2
  <2> QED BY <2>1, <2>3 DEF n
<1>5. ClapAccepts(a, given)
  <2>1. CASE a.card = "Required"
    BY <1>4, <2>1, Zenon DEF ClapAccepts
  <2>2. CASE a.card = "Optional"
    <3>1. Len(given) <= 1
      BY <1>4, <2>2
    <3> QED BY <2>2, <3>1, Zenon DEF ClapAccepts
  <2>3. CASE a.card = "Repeated"
    BY <2>3, Zenon DEF ClapAccepts
  <2> QED BY <1>1, <2>1, <2>2, <2>3
<1>6. NoValue \in items <=> ~\A i \in 1 .. Len(given) : coerce_value(given[i], a.type) # NoValue
  OBVIOUS
<1>7. first \in items /\ (a.card # "Repeated" => items = {first})
  BY <1>4
<1>8. CliAccepts(a, given) <=> m.ok /\ validate_typed_args({a}, [n \in {a.name} |-> m.value]) = {}
  BY <1>5 DEF CliAccepts
<1>9. \A i \in 1 .. Len(given) :
        coerce_value(given[i], a.type) # NoValue => ScalarMatches(coerce_value(given[i], a.type), a.type)
  BY <1>1, TokenFacts
<1>10. NoValue \notin items => \A w \in items : ScalarMatches(w, a.type)
  BY <1>6, <1>9
<1> HIDE DEF m, items, first, typed
<1>11. bad => ~CliAccepts(a, given)
  <2>1. bad => m.ok = FALSE
    BY <1>2
  <2> QED BY <1>8, <2>1
<1>12. ~bad /\ typed # NoValue => (CliAccepts(a, given) <=> Accepted(a, typed))
  <2> HIDE DEF bad
  <2>1. ~bad /\ typed # NoValue => m.ok = TRUE /\ m.value = typed
    BY <1>2
  <2> QED BY <1>8, <2>1, ValidatedAlone
<1>13. Value("Count", "1") # NoValue /\ Value("Bool", "true") # NoValue
  BY DEF Value, NoValue
<1>14. CASE a.kind = "Flag"
  BY <1>1, <1>3, <1>12, <1>13, <1>14, AcceptedFacts
<1>15. CASE a.kind # "Flag" /\ a.card = "Repeated"
  <2>1. NoValue \notin items => Accepted(a, typed) /\ typed # NoValue
    BY <1>3, <1>10, <1>15, AcceptedLists
  <2> QED BY <1>6, <1>11, <1>12, <1>15, <2>1
<1>16. CASE a.kind # "Flag" /\ a.card # "Repeated"
  BY <1>3, <1>7, <1>11, <1>12, <1>16 DEF first
<1> QED BY <1>14, <1>15, <1>16

\* The same is accepted from both, but for what only one of them takes.
LEMMA TheSurfacesAreAlike ==
    ASSUME NEW a \in ArgSet, NEW given \in Seq(Tokens)
    PROVE  SurfacesAlike(a, given)
<1> DEFINE j == JsonFor(a, given)
           cli == CliAccepts(a, given)
           mcp == McpAccepts(a, j)
           alike == /\ OnlyOnTheLine(a, given) => ~mcp
                    /\ OnlyByMcp(a, given) => ~cli
                    /\ ~OnlyOnTheLine(a, given) /\ ~OnlyByMcp(a, given) => (cli <=> mcp)
<1> SUFFICES ASSUME Found(a), a.card = "Repeated" \/ Len(given) <= 1
             PROVE  alike
  BY DEF SurfacesAlike
<1>1. /\ a.kind \in {"Flag", "Option", "Positional"} /\ a.card \in {"Required", "Optional", "Repeated"}
      /\ a.type \in {"Bool", "String", "Int", "Float", "Enum"}
      /\ (a.kind = "Flag" => a.type = "Bool")
  BY ArgFacts
<1>2. CASE given = <<>>
  <2>1. j = NotGiven
    BY <1>2 DEF JsonFor
  <2>2. mcp <=> a.card # "Required"
    <3>1. NotGiven \in JsonSet
      BY DEF JsonSet
    <3> QED BY <2>1, <3>1, McpAsks
  <2>3. ~OnlyOnTheLine(a, given)
    BY <1>2 DEF OnlyOnTheLine
  <2>4. map_matches_to_typed_args(a, given) = [ok |-> TRUE, value |-> a.default]
    <3> DEFINE items == {coerce_value(given[i], a.type) : i \in 1 .. Len(given)}
               typed == CASE given = <<>> -> NoValue
                          [] given # <<>> /\ a.kind = "Flag" ->
                               IF a.card = "Repeated" THEN Value("Count", "1") ELSE Value("Bool", "true")
                          [] given # <<>> /\ a.kind # "Flag" ->
                               IF a.card = "Repeated" THEN List(items) ELSE coerce_value(given[1], a.type)
               bad == a.kind # "Flag" /\ NoValue \in items
    <3>1. map_matches_to_typed_args(a, given) =
            IF bad THEN [ok |-> FALSE, value |-> NoValue]
            ELSE [ok |-> TRUE, value |-> IF typed = NoValue THEN a.default ELSE typed]
      BY DEF map_matches_to_typed_args
    <3>2. items = {}
      BY <1>2
    <3>3. typed = NoValue
      BY <1>2
    <3> HIDE DEF items, typed
    <3> QED BY <3>1, <3>2, <3>3
  <2>5. ClapAccepts(a, given) <=> a.card # "Required"
    <3>1. Len(given) = 0 /\ Len(given) # 1 /\ Len(given) <= 1
      BY <1>2
    <3> QED BY <1>1, <3>1, Zenon DEF ClapAccepts
  <2>6. cli <=> a.card # "Required" /\ validate_typed_args({a}, [n \in {a.name} |-> a.default]) = {}
    <3> DEFINE m == map_matches_to_typed_args(a, given)
    <3>1. cli <=> ClapAccepts(a, given) /\ m.ok /\ validate_typed_args({a}, [n \in {a.name} |-> m.value]) = {}
      BY DEF CliAccepts
    <3>2. m.ok = TRUE /\ m.value = a.default
      BY <2>4
    <3> HIDE DEF m, cli
    <3> QED BY <2>5, <3>1, <3>2
  <2>7. a.default = NoValue /\ a.card # "Required" =>
          validate_typed_args({a}, [n \in {a.name} |-> a.default]) = {}
    BY ValidatedAlone
  <2>8. OnlyByMcp(a, given) <=>
          a.default # NoValue /\ ~(validate_typed_args({a}, [n \in {a.name} |-> a.default]) = {})
    BY <1>2 DEF OnlyByMcp
  <2> DEFINE valid == validate_typed_args({a}, [n \in {a.name} |-> a.default]) = {}
  <2> HIDE DEF j, cli, mcp, valid
  <2> QED BY <2>2, <2>3, <2>6, <2>7, <2>8 DEF valid
<1>3. ASSUME given # <<>>, a.kind = "Flag"
      PROVE  alike
  <2>1. cli
    BY <1>3, CliAsks
  <2>2. ~OnlyByMcp(a, given)
    BY <1>3 DEF OnlyByMcp
  <2>3. a.type = "Bool" /\ (OnlyOnTheLine(a, given) <=> a.card = "Repeated")
    BY <1>1, <1>3 DEF OnlyOnTheLine
  <2>4. CASE a.card = "Repeated"
    <3>1. j = Json("number", "1") /\ j \in JsonScalars /\ j \in JsonSet
      BY <1>3, <2>4 DEF JsonFor, Json, JsonScalars, JsonSet, Numeric, Whole, Fits
    <3>2. mcp <=> Accepted(a, ScalarArg(j))
      BY <3>1, McpAsks
    <3>3. ScalarArg(j) = Value("Int", "1") /\ "1" \in Numeric
      BY <3>1 DEF ScalarArg, Json, Numeric, Whole, Fits
    <3>4. ~mcp
      BY <2>3, <3>2, <3>3, AcceptedFacts
    <3> HIDE DEF j, cli, mcp
    <3> QED BY <2>2, <2>3, <2>4, <3>4
  <2>5. CASE a.card # "Repeated"
    <3>1. j = Json("boolean", "true") /\ j \in JsonScalars /\ j \in JsonSet
      BY <1>3, <2>5 DEF JsonFor, Json, JsonScalars, JsonSet
    <3>2. mcp <=> Accepted(a, ScalarArg(j))
      BY <3>1, McpAsks
    <3>3. ScalarArg(j) = Value("Bool", "true")
      BY <3>1 DEF ScalarArg, Json
    <3>4. mcp
      BY <2>3, <3>2, <3>3, AcceptedFacts
    <3> HIDE DEF j, cli, mcp
    <3> QED BY <2>1, <2>2, <2>3, <2>5, <3>4
  <2> QED BY <2>4, <2>5
<1>4. ASSUME given # <<>>, a.kind # "Flag", a.card = "Repeated"
      PROVE  alike
  <2>1. \A i \in 1 .. Len(given) : given[i] \in Tokens
    OBVIOUS
  <2>2. cli <=> \A i \in 1 .. Len(given) : coerce_value(given[i], a.type) # NoValue
    BY <1>4, CliAsks
  <2>3. ~OnlyByMcp(a, given)
    BY <1>4 DEF OnlyByMcp
  <2>4. /\ j.kind = "array" /\ j.items = [i \in 1 .. Len(given) |-> JsonScalar(a.type, given[i])]
        /\ j \in [kind : {"array"}, token : {"none"}, items : Seq(JsonScalars \cup NullsAndObjects)]
    <3> DEFINE items == [i \in 1 .. Len(given) |-> JsonScalar(a.type, given[i])]
    <3>1. j = [kind |-> "array", token |-> "none", items |-> items]
      BY <1>4 DEF JsonFor
    <3>2. \A i \in 1 .. Len(given) : JsonScalar(a.type, given[i]) \in JsonScalars
      BY <1>1, <2>1, TokenFacts
    <3>3. items \in Seq(JsonScalars \cup NullsAndObjects)
      <4>1. Len(given) \in Nat /\ \A i \in 1 .. Len(given) : items[i] \in JsonScalars \cup NullsAndObjects
        BY <3>2
      <4> QED BY <4>1
    <3> HIDE DEF items, j
    <3>4. j.kind = "array" /\ j.items = items
      BY <3>1
    <3>5. j \in [kind : {"array"}, token : {"none"}, items : Seq(JsonScalars \cup NullsAndObjects)]
      BY <3>1, <3>3
    <3> QED BY <3>4, <3>5 DEF items
  <2>5. j \in JsonSet
    BY <2>4 DEF JsonSet
  <2>6. mcp <=> AllTyped(j, a.type)
    <3> HIDE DEF j
    <3> QED BY <2>4, <2>5, McpAsks
  <2> HIDE DEF j, cli, mcp
  <2>7. Len(j.items) = Len(given) /\ \A i \in 1 .. Len(given) : j.items[i] = JsonScalar(a.type, given[i])
    <3>1. Len(given) \in Nat
      OBVIOUS
    <3> QED BY <2>4, <3>1
  <2>8. \A i \in 1 .. Len(given) : LET s == JsonScalar(a.type, given[i])
                                   IN /\ s \in JsonScalars /\ s.kind \notin {"null", "object"}
                                      /\ Typed(s, a.type) <=> ScalarMatches(ScalarArg(s), a.type)
    BY <1>1, <2>1, TokenFacts, TypedIsMatched, JsonFacts
  <2>9. mcp <=> \A i \in 1 .. Len(given) : ScalarMatches(ScalarArg(JsonScalar(a.type, given[i])), a.type)
    BY <2>6, <2>7, <2>8 DEF AllTyped
  <2>10. \A i \in 1 .. Len(given) :
           /\ OnlyALine(a.type, given[i]) => ~ScalarMatches(ScalarArg(JsonScalar(a.type, given[i])), a.type)
           /\ ~OnlyALine(a.type, given[i]) =>
                (coerce_value(given[i], a.type) # NoValue
                 <=> ScalarMatches(ScalarArg(JsonScalar(a.type, given[i])), a.type))
    BY <1>1, <2>1, TokenFacts
  <2>11. OnlyOnTheLine(a, given) <=> \E i \in 1 .. Len(given) : OnlyALine(a.type, given[i])
    <3>1. 1 \in 1 .. Len(given)
      BY <1>4
    <3> QED BY <1>4, <3>1 DEF OnlyOnTheLine, OnlyALine
  <2> QED BY <2>2, <2>3, <2>9, <2>10, <2>11
<1>5. ASSUME given # <<>>, a.kind # "Flag", a.card # "Repeated"
      PROVE  alike
  <2> DEFINE v == coerce_value(given[1], a.type)
  <2>1. Len(given) = 1 /\ given[1] \in Tokens
    <3> DEFINE n == Len(given)
    <3>1. n \in Nat /\ n # 0
      BY <1>5, EmptySeq
    <3>2. n <= 1
      BY <1>5
    <3> HIDE DEF n
    <3>3. n = 1
      BY <3>1, <3>2
    <3> QED BY <3>3 DEF n
  <2>2. cli <=> v # NoValue /\ Accepted(a, v)
    BY <1>5, CliAsks
  <2>3. ~OnlyByMcp(a, given)
    BY <1>5 DEF OnlyByMcp
  <2>4. j = JsonScalar(a.type, given[1])
    BY <1>5 DEF JsonFor
  <2>5. j \in JsonScalars /\ j \in JsonSet
    BY <1>1, <2>1, <2>4, TokenFacts DEF JsonSet
  <2>6. mcp <=> Accepted(a, ScalarArg(j))
    <3> HIDE DEF j
    <3> QED BY <2>5, McpAsks
  <2>7. /\ OnlyALine(a.type, given[1]) => ~ScalarMatches(ScalarArg(j), a.type)
        /\ ~OnlyALine(a.type, given[1]) =>
             /\ v # NoValue => ScalarArg(j) = v
             /\ v = NoValue => ~ScalarMatches(ScalarArg(j), a.type)
    <3> HIDE DEF j
    <3> QED BY <1>1, <2>1, <2>4, TokenFacts
  <2>8. ~ScalarMatches(ScalarArg(j), a.type) => ~Accepted(a, ScalarArg(j))
    <3>1. \A t, k : Value(k, t).type = k
      BY DEF Value
    <3>2. ScalarArg(j).type # "List"
      <4> HIDE DEF j
      <4>1. \E t : \E k \in {"Bool", "Str", "Int", "Float"} : ScalarArg(j) = Value(k, t)
        BY <2>5, JsonFacts
      <4> QED BY <3>1, <4>1
    <3> HIDE DEF j
    <3> QED BY <3>2 DEF Accepted, value_matches_type
  <2>9. OnlyOnTheLine(a, given) <=> OnlyALine(a.type, given[1])
    BY <1>5, <2>1 DEF OnlyOnTheLine, OnlyALine
  <2> HIDE DEF j, v, cli, mcp
  <2> QED BY <2>2, <2>3, <2>6, <2>7, <2>8, <2>9
<1> QED BY <1>2, <1>3, <1>4, <1>5

\* Whatever its names, its bounds and its values: a tool takes an argument
\* when its schema allows it, but for what is withheld and what is
\* unpublished, and the command line takes the same values, but for what only
\* one of them takes (to_json_schema_property, invoke_mcp,
\* map_matches_to_typed_args, validate_typed_args).
THEOREM ArgumentsAreTakenAlike == AppSpec => []ArgumentsAreAlike
<1>1. ArgumentsAreAlike
  BY ArgsAssumption, SchemasAreExact, TheSurfacesAreAlike DEF ArgumentsAreAlike, SchemaIsExact, SurfacesAgree
<1> QED BY <1>1, PTL

-----------------------------------------------------------------------------
(* Tools.                                                                  *)

\* The first tool of a name that a list has is one of the list's.
LEMMA FirstIsListed ==
    ASSUME NEW l \in Offered, NEW n \in Names(l)
    PROVE  \E i \in DOMAIN l : First(l, n) = l[i]
<1>1. l \in Seq({l[i] : i \in DOMAIN l})
  BY ToolsAssumption
<1> DEFINE S == {i \in DOMAIN l : l[i].name = n}
<1>2. DOMAIN l = 1 .. Len(l) /\ Len(l) \in Nat
  BY <1>1
<1>3. S # {} /\ S \in SUBSET Nat
  BY <1>2 DEF Names
<1>4. PICK i \in S : \A j \in S : i <= j
  BY <1>3, Smallest
<1>5. \A j \in 1 .. i - 1 : l[j].name # n
  BY <1>2, <1>4
<1>6. \E k \in DOMAIN l : l[k].name = n /\ \A j \in 1 .. k - 1 : l[j].name # n
  BY <1>4, <1>5
<1> QED BY <1>6 DEF First

Phases == {"none", "lock", "resolve", "validate", "gate", "running", "done"}
AtWork == {"resolve", "validate", "gate", "running"}
Picked == {"validate", "gate", "running"}

IdsOf(l) == {l[i].id : i \in DOMAIN l}
GivenIds == UNION {IdsOf(l) : l \in Offered}
Ids == {c.id : c \in Registered} \cup GivenIds \cup {""}
GivenNames == UNION {Names(l) : l \in Offered}
ToolNames == {ToolName(c.path) : c \in Registered} \cup GivenNames \cup {<<>>}
Records ==
  [pc : Phases, tool : ToolNames, who : Identities, id : Ids, passed : BOOLEAN,
   result : {"none", "ok", "error"}, text : SUBSET Calls, could : SUBSET Ids]
Servers ==
  [phase : {"configured", "refused", "serving"}, transport : {"", "http", "stdio"},
   policy : {"", "All", "ExposeMcpOnly"}, gate : BOOLEAN,
   tools : {<<>>} \cup Registries("All") \cup Registries("ExposeMcpOnly")]

\* An id that the export policy does not keep back.
Kept(id) ==
  \A cmd \in Registered : cmd.id = id /\ server.policy = "ExposeMcpOnly" => cmd.expose_mcp

\* What is so of one call.
CallFits(c) ==
  LET k == call[c]
  IN /\ k.pc # "none" => server.phase = "serving"
     /\ k.pc \in Picked => k.id # "" /\ k.could = {k.id} /\ Kept(k.id)
     /\ k.pc \notin Picked => k.id = "" /\ k.could = {}
     /\ k.pc = "running" /\ server.gate => k.passed
     /\ k.text \subseteq {c} /\ buffer[c] \subseteq {c}
     /\ k.pc \in AtWork /\ server.transport = "stdio" => guard = c

ToolsInv ==
  /\ server \in Servers /\ grants \in [Identities -> Offered] /\ call \in [Calls -> Records]
  /\ buffer \in [Calls -> SUBSET Calls]
  /\ server.phase = "serving" => server.tools \in Registries(server.policy)
  /\ guard = Unlocked \/ (guard \in Calls /\ call[guard].pc \in AtWork)
  /\ \A c \in Calls : CallFits(c)

\* What a call may run under a name: one command, which the policy exports or
\* the provider gave the caller.
LEMMA OneIsAllowed ==
    ASSUME ToolsInv, server.phase = "serving", NEW c \in Calls,
           call[c].tool \in DOMAIN server.tools \cup Names(Granted(call[c].who)),
           NEW id, id = IF call[c].tool \in DOMAIN server.tools
                        THEN server.tools[call[c].tool].id
                        ELSE First(Granted(call[c].who), call[c].tool).id
    PROVE  id \in Ids /\ id # "" /\ Kept(id) /\ Allowed(c) = {id}
<1>1. Granted(call[c].who) \in Offered
  BY DEF Granted, ToolsInv, Records
<1>2. Allowed(c) = {id}
  BY DEF Allowed, list_tools_for_identity
<1>3. CASE call[c].tool \in DOMAIN server.tools
  <2>1. server.tools[call[c].tool] \in Exported(server.policy)
    BY <1>3 DEF ToolsInv, Registries
  <2> PICK cmd \in Registered : /\ cmd = server.tools[call[c].tool]
                                /\ server.policy = "ExposeMcpOnly" => cmd.expose_mcp
    BY <2>1 DEF Exported
  <2>2. id = cmd.id
    BY <1>3
  <2>3. id \in Ids /\ id # ""
    BY <2>2, ToolsAssumption DEF Ids, IdAssumption
  <2>4. \A d \in Registered : d.id = id => d = cmd
    BY <2>2, ToolsAssumption DEF IdAssumption
  <2> QED BY <1>2, <2>3, <2>4 DEF Kept
<1>4. CASE call[c].tool \notin DOMAIN server.tools
  <2> DEFINE l == Granted(call[c].who)
  <2>1. PICK i \in DOMAIN l : First(l, call[c].tool) = l[i]
    BY <1>1, <1>4, FirstIsListed
  <2>2. l \in Offered /\ id = l[i].id
    BY <1>1, <1>4, <2>1
  <2> HIDE DEF l
  <2>3. id # "" /\ \A cmd \in Registered : cmd.id # id
    BY <2>1, <2>2, ToolsAssumption DEF IdAssumption
  <2>4. id \in Ids
    <3>1. id \in IdsOf(l)
      BY <2>1, <2>2 DEF IdsOf
    <3> QED BY <2>2, <3>1 DEF Ids, GivenIds
  <2> QED BY <1>2, <2>3, <2>4 DEF Kept
<1> QED BY <1>3, <1>4

\* A call that failed, or has nothing yet.
LEMMA Blank0 ==
    /\ NoCall \in Records /\ NoCall.pc = "none" /\ NoCall.id = "" /\ NoCall.could = {}
    /\ NoCall.text = {}
<1>1. <<>> \in ToolNames
  BY DEF ToolNames
<1>2. "" \in Ids
  BY DEF Ids
<1> QED BY <1>1, <1>2 DEF NoCall, Records, Phases, Identities


\* A step of one call that leaves the server alone and gives the lock to
\* nobody else.
LEMMA CallStep ==
    ASSUME ToolsInv, NEW c \in Calls, NEW k \in Records,
           call' = [call EXCEPT ![c] = k], UNCHANGED <<server, grants>>,
           k.pc # "none" => server.phase = "serving",
           k.pc \in Picked => k.id # "" /\ k.could = {k.id} /\ Kept(k.id),
           k.pc \notin Picked => k.id = "" /\ k.could = {},
           k.pc = "running" /\ server.gate => k.passed,
           k.text \subseteq {c},
           buffer' = buffer \/ buffer' = [buffer EXCEPT ![c] = {}],
           k.pc \in AtWork /\ server.transport = "stdio" => guard' = c,
           \/ guard' = guard \/ (guard = Unlocked /\ guard' = c) \/ (guard = c /\ guard' = Unlocked),
           guard' = c => k.pc \in AtWork
    PROVE  ToolsInv'
<1>1. call' \in [Calls -> Records] /\ call'[c] = k /\ \A d \in Calls \ {c} : call'[d] = call[d]
  BY DEF ToolsInv
<1>2. /\ buffer' \in [Calls -> SUBSET Calls] /\ buffer'[c] \subseteq {c}
      /\ \A d \in Calls \ {c} : buffer'[d] = buffer[d]
  <2>1. buffer \in [Calls -> SUBSET Calls] /\ buffer[c] \subseteq {c}
    BY DEF ToolsInv, CallFits
  <2>2. CASE buffer' = buffer
    BY <2>1, <2>2
  <2>3. CASE buffer' = [buffer EXCEPT ![c] = {}]
    BY <2>1, <2>3
  <2> QED BY <2>2, <2>3
<1>3. Unlocked \notin Calls
  BY ToolsAssumption
<1>4. CallFits(c)'
  BY <1>1, <1>2 DEF CallFits, Kept
<1>5. ASSUME NEW d \in Calls \ {c}
      PROVE  CallFits(d)'
  <2>1. CallFits(d) /\ call'[d] = call[d] /\ buffer'[d] = buffer[d] /\ server' = server
    BY <1>1, <1>2 DEF ToolsInv
  <2>2. guard = d => guard' = d
    BY <1>3
  <2> QED BY <2>1, <2>2 DEF CallFits, Kept
<1>6. (guard = Unlocked \/ (guard \in Calls /\ call[guard].pc \in AtWork))'
  <2>1. CASE guard' = c
    BY <1>1, <2>1
  <2>2. CASE guard' # c
    BY <1>1, <2>2 DEF ToolsInv
  <2> QED BY <2>1, <2>2
<1> QED BY <1>1, <1>2, <1>4, <1>5, <1>6 DEF ToolsInv

\* A call that fails gives the lock back.
LEMMA FailedStep ==
    ASSUME ToolsInv, NEW c \in Calls, NEW code, Failed(c, code), Release(c),
           UNCHANGED <<server, grants, buffer>>, call[c].pc \in AtWork
    PROVE  ToolsInv'
<1> PICK k : k = [NoCall EXCEPT !.pc = "done", !.result = "error"]
  OBVIOUS
<1>1. /\ k \in Records /\ k.pc = "done" /\ k.id = "" /\ k.could = {} /\ k.text = {}
  BY Blank0 DEF Records, Phases
<1>2. call' = [call EXCEPT ![c] = k]
  BY DEF Failed
<1>3. server.phase = "serving"
  BY DEF ToolsInv, CallFits, AtWork
<1>4. guard' = IF guard = c THEN Unlocked ELSE guard
  BY DEF Release
<1>5. Unlocked \notin Calls
  BY ToolsAssumption
<1> QED BY <1>1, <1>2, <1>3, <1>4, <1>5, CallStep DEF Picked, AtWork

\* Every step of the tools keeps the invariant.
LEMMA ToolsStep ==
    ASSUME ToolsInv, ToolCallsNext
    PROVE  ToolsInv'
<1>0. Unlocked \notin Calls
  BY ToolsAssumption
<1>1. CASE Serve
  <2>1. /\ server.phase = "configured" /\ UNCHANGED <<grants, call, guard, buffer>>
    BY <1>1 DEF Serve
  <2>2. \A c \in Calls : call[c].pc = "none"
    BY <2>1 DEF ToolsInv, CallFits
  <2>3. server' \in Servers /\ (server'.phase = "serving" => server'.tools \in Registries(server'.policy))
    <3>1. CASE NotStarted
      BY <2>1, <3>1 DEF NotStarted, ToolsInv, Servers
    <3>2. ASSUME NEW transport \in {"http", "stdio"}, NEW policy \in {"All", "ExposeMcpOnly"},
                 NEW gate \in BOOLEAN, Started(transport, policy, gate)
          PROVE  server' \in Servers /\ server'.tools \in Registries(server'.policy)
      <4> PICK tools \in Registries(policy) :
             server' = [phase |-> "serving", transport |-> transport, policy |-> policy,
                        tools |-> tools, gate |-> gate]
        BY <3>2 DEF Started
      <4> QED BY DEF Servers
    <3> QED BY <1>1, <3>1, <3>2 DEF Serve, serve_mcp_stdio, serve_mcp_http
  <2> QED BY <2>1, <2>2, <2>3 DEF ToolsInv, CallFits, AtWork, Picked
<1>2. CASE Change
  <2>1. UNCHANGED <<server, call, guard, buffer>>
    BY <1>2 DEF Change
  <2>2. grants' \in [Identities -> Offered]
    BY <1>2 DEF Change, ToolsInv
  <2> QED BY <2>1, <2>2 DEF ToolsInv, CallFits, Kept
<1>3. ASSUME NEW c \in Calls, call_tool(c)
      PROVE  ToolsInv'
  <2> PICK tool \in DOMAIN server.tools \cup UNION {Names(l) : l \in Offered},
           who \in Identities :
         call' = [call EXCEPT ![c] = [NoCall EXCEPT !.tool = tool, !.who = who,
                    !.pc = IF server.transport = "stdio" THEN "lock" ELSE "resolve"]]
    BY <1>3 DEF call_tool, Identities
  <2>1. tool \in ToolNames
    <3>1. ASSUME tool \in DOMAIN server.tools
          PROVE  tool \in {ToolName(d.path) : d \in Registered}
      <4>1. tool \in {ToolName(d.path) : d \in Exported(server.policy)}
        BY <1>3, <3>1 DEF call_tool, ToolsInv, Registries
      <4> QED BY <4>1 DEF Exported
    <3> QED BY <3>1 DEF ToolNames, GivenNames
  <2> PICK k : k = [NoCall EXCEPT !.tool = tool, !.who = who,
                      !.pc = IF server.transport = "stdio" THEN "lock" ELSE "resolve"]
    OBVIOUS
  <2>2. /\ k \in Records /\ k.pc = (IF server.transport = "stdio" THEN "lock" ELSE "resolve")
        /\ k.id = "" /\ k.could = {} /\ k.text = {}
    BY <2>1, Blank0 DEF Records, Phases
  <2>3. call[c].pc = "none" /\ server.phase = "serving" /\ UNCHANGED <<server, grants, guard, buffer>>
    BY <1>3 DEF call_tool
  <2>4. call' = [call EXCEPT ![c] = k]
    OBVIOUS
  <2>5. guard' = guard /\ guard # c
    BY <1>0, <2>3 DEF ToolsInv, AtWork
  <2>6. /\ k.pc \notin Picked /\ k.pc # "running" /\ k.text \subseteq {c}
        /\ ~(k.pc \in AtWork /\ server.transport = "stdio")
    <3>1. CASE server.transport = "stdio"
      <4>1. k.pc = "lock" /\ k.text = {}
        BY <2>2, <3>1
      <4> QED BY <4>1 DEF Picked, AtWork
    <3>2. CASE server.transport # "stdio"
      <4>1. k.pc = "resolve" /\ k.text = {}
        BY <2>2, <3>2
      <4> QED BY <3>2, <4>1 DEF Picked, AtWork
    <3> QED BY <3>1, <3>2
  <2> QED BY <2>2, <2>3, <2>4, <2>5, <2>6, CallStep
<1>4. ASSUME NEW c \in Calls, Acquire(c)
      PROVE  ToolsInv'
  <2> PICK k : k = [call[c] EXCEPT !.pc = "resolve"]
    OBVIOUS
  <2>1. /\ call[c].pc = "lock" /\ guard = Unlocked /\ guard' = c /\ call' = [call EXCEPT ![c] = k]
        /\ UNCHANGED <<server, grants, buffer>>
    BY <1>4 DEF Acquire, At, ToolsInv
  <2>2. call[c] \in Records /\ CallFits(c)
    BY DEF ToolsInv
  <2>3. /\ k \in Records /\ k.pc = "resolve" /\ k.id = call[c].id /\ k.could = call[c].could
        /\ k.text = call[c].text
    BY <2>2 DEF Records, Phases
  <2> QED BY <2>1, <2>2, <2>3, CallStep DEF Picked, AtWork, CallFits
<1>5. ASSUME NEW c \in Calls, Resolve(c)
      PROVE  ToolsInv'
  <2>0. /\ call[c].pc = "resolve" /\ UNCHANGED <<server, grants, buffer>>
        /\ call[c] \in Records /\ CallFits(c) /\ server.phase = "serving"
    BY <1>5 DEF Resolve, ToolsInv, CallFits
  <2>1. CASE call[c].tool \in DOMAIN server.tools \cup Names(Granted(call[c].who))
    <3> PICK id : id = IF call[c].tool \in DOMAIN server.tools
                       THEN server.tools[call[c].tool].id
                       ELSE First(Granted(call[c].who), call[c].tool).id
      OBVIOUS
    <3>1. id \in Ids /\ id # "" /\ Kept(id) /\ Allowed(c) = {id}
      BY <2>0, <2>1, OneIsAllowed
    <3> PICK k : k = [call[c] EXCEPT !.pc = "validate", !.could = Allowed(c), !.id = id]
      OBVIOUS
    <3>2. call' = [call EXCEPT ![c] = k] /\ guard' = guard
      BY <1>5, <2>1 DEF Resolve, ToolsInv
    <3>3. /\ k \in Records /\ k.pc = "validate" /\ k.id = id /\ k.could = {id}
          /\ k.text = call[c].text
      BY <2>0, <3>1 DEF Records, Phases
    <3>4. server.transport = "stdio" => guard = c
      BY <2>0 DEF CallFits, AtWork
    <3> QED BY <2>0, <3>1, <3>2, <3>3, <3>4, CallStep DEF Picked, AtWork, CallFits
  <2>2. CASE call[c].tool \notin DOMAIN server.tools \cup Names(Granted(call[c].who))
    BY <1>5, <2>0, <2>2, FailedStep DEF Resolve, AtWork
  <2> QED BY <2>1, <2>2
<1>6. ASSUME NEW c \in Calls, invoke_mcp(c)
      PROVE  ToolsInv'
  <2>0. /\ call[c].pc = "validate" /\ UNCHANGED <<server, grants, buffer>>
        /\ call[c] \in Records /\ CallFits(c)
    BY <1>6 DEF invoke_mcp, ToolsInv
  <2>1. CASE At(c, "gate") /\ UNCHANGED guard
    <3> PICK k : k = [call[c] EXCEPT !.pc = "gate"]
      OBVIOUS
    <3>1. call' = [call EXCEPT ![c] = k] /\ guard' = guard
      BY <2>1 DEF At, ToolsInv
    <3>2. /\ k \in Records /\ k.pc = "gate" /\ k.id = call[c].id /\ k.could = call[c].could
          /\ k.text = call[c].text
      BY <2>0 DEF Records, Phases
    <3> QED BY <2>0, <3>1, <3>2, CallStep DEF Picked, AtWork, CallFits
  <2>2. CASE Failed(c, "-32002") /\ Release(c)
    BY <2>0, <2>2, FailedStep DEF AtWork
  <2> QED BY <1>6, <2>1, <2>2 DEF invoke_mcp
<1>7. ASSUME NEW c \in Calls, Gate(c)
      PROVE  ToolsInv'
  <2>0. /\ call[c].pc = "gate" /\ UNCHANGED <<server, grants, buffer>>
        /\ call[c] \in Records /\ CallFits(c) /\ server.gate \in BOOLEAN
    BY <1>7 DEF Gate, ToolsInv, Servers
  <2>1. CASE call' = [call EXCEPT ![c].pc = "running", ![c].passed = server.gate] /\ UNCHANGED guard
    <3> PICK k : k = [call[c] EXCEPT !.pc = "running", !.passed = server.gate]
      OBVIOUS
    <3>1. call' = [call EXCEPT ![c] = k] /\ guard' = guard
      BY <2>1 DEF ToolsInv
    <3>2. /\ k \in Records /\ k.pc = "running" /\ k.id = call[c].id /\ k.could = call[c].could
          /\ k.text = call[c].text
      BY <2>0 DEF Records, Phases
    <3>3. k.passed = server.gate
      BY <2>0, Zenon DEF Records
    <3> QED BY <2>0, <3>1, <3>2, <3>3, CallStep DEF Picked, AtWork, CallFits
  <2>2. CASE (Failed(c, "-32005") \/ Failed(c, "-32006")) /\ Release(c)
    BY <2>0, <2>2, FailedStep DEF AtWork
  <2> QED BY <1>7, <2>1, <2>2 DEF Gate
<1>8. ASSUME NEW c \in Calls, framework_println(c)
      PROVE  ToolsInv'
  <2>1. /\ buffer' = [buffer EXCEPT ![c] = @ \cup {c}]
        /\ UNCHANGED <<server, grants, call, guard>>
    BY <1>8 DEF framework_println
  <2>2. buffer' \in [Calls -> SUBSET Calls] /\ \A d \in Calls : buffer'[d] \subseteq {d}
    BY <2>1 DEF ToolsInv, CallFits
  <2> QED BY <2>1, <2>2 DEF ToolsInv, CallFits, Kept
<1>9. ASSUME NEW c \in Calls, Executed(c)
      PROVE  ToolsInv'
  <2>0. /\ call[c].pc = "running" /\ UNCHANGED <<server, grants>> /\ Release(c)
        /\ buffer' = [buffer EXCEPT ![c] = {}] /\ CallFits(c) /\ buffer[c] \subseteq Calls
    BY <1>9 DEF Executed, ToolsInv
  <2> PICK k : k = [NoCall EXCEPT !.pc = "done", !.result = "ok", !.text = buffer[c]]
    OBVIOUS
  <2>1. call' = [call EXCEPT ![c] = k]
    BY <1>9 DEF Executed
  <2>2. k \in Records /\ k.pc = "done" /\ k.id = "" /\ k.could = {} /\ k.text = buffer[c]
    BY <2>0, Blank0 DEF Records, Phases
  <2>3. server.phase = "serving" /\ buffer[c] \subseteq {c}
    BY <2>0 DEF CallFits
  <2>4. guard' = IF guard = c THEN Unlocked ELSE guard
    BY <2>0 DEF Release
  <2> QED BY <1>0, <2>0, <2>1, <2>2, <2>3, <2>4, CallStep DEF Picked, AtWork
<1>10. ASSUME NEW c \in Calls, ExecutionFailed(c) \/ Panicked(c)
       PROVE  ToolsInv'
  BY <1>10, FailedStep DEF ExecutionFailed, Panicked, AtWork
<1> QED BY <1>1, <1>2, <1>3, <1>4, <1>5, <1>6, <1>7, <1>8, <1>9, <1>10 DEF ToolCallsNext, Proceed

-----------------------------------------------------------------------------
(* The API server.                                                         *)

\* A probe that ended after readiness went off said no, and there is one
\* before the server is told to stop; whoever is still answered finds it
\* listening, or had been taken before.
ApiInv ==
  /\ flags \in [unready : BOOLEAN, cancelled : BOOLEAN]
  /\ probe \in [pc : {"idle", "checking"}, ready : BOOLEAN, on : BOOLEAN]
  /\ task \in {"waiting", "signalled", "unready", "cancelled", "sent"}
  /\ listening \in BOOLEAN /\ served \in BOOLEAN /\ rounds \in {0, 1}
  /\ request \in [Requests -> {"none", "handled", "answered"}]
  /\ rounds = 1 => flags.unready /\ probe.pc = "idle" /\ ~probe.ready
  /\ ~probe.on => probe.pc = "idle" /\ ~probe.ready
  /\ task = "sent" /\ probe.on => rounds = 1
  /\ ~listening => task = "sent"
  /\ served => ~listening /\ ~Busy

\* Every step of the server, the balancer and the application keeps it.
LEMMA ApiStep ==
    ASSUME ApiInv, ApiNext
    PROVE  ApiInv'
<1> USE DEF ApiInv, Busy
<1>1. CASE Signal
  BY <1>1 DEF Signal
<1>2. CASE StoreReadiness
  <2>1. flags' = [flags EXCEPT !.unready = TRUE]
    BY <1>2 DEF StoreReadiness
  <2>2. flags' \in [unready : BOOLEAN, cancelled : BOOLEAN] /\ flags'.unready
    BY <2>1, Zenon
  <2> QED BY <1>2, <2>2 DEF StoreReadiness
<1>3. CASE CancelToken \/ AppCancels
  <2>1. flags' = [flags EXCEPT !.cancelled = TRUE]
    BY <1>3 DEF CancelToken, AppCancels
  <2>2. flags' \in [unready : BOOLEAN, cancelled : BOOLEAN] /\ flags'.unready = flags.unready
    BY <2>1, Zenon
  <2>3. task' \in {task, "cancelled"} /\ UNCHANGED <<listening, served, probe, request, rounds>>
    BY <1>3 DEF CancelToken, AppCancels
  <2>4. task = "sent" => task' = task
    BY <1>3 DEF CancelToken, AppCancels
  <2> QED BY <2>2, <2>3, <2>4
<1>4. CASE Sleep
  BY <1>4 DEF Sleep
<1>5. CASE StopListening
  BY <1>5 DEF StopListening
<1>6. CASE Return
  BY <1>6 DEF Return
<1>7. CASE readyz
  <2>1. CASE Off
    <3>1. probe' = [probe EXCEPT !.ready = FALSE] /\ rounds' = IF flags.unready THEN 1 ELSE rounds
      BY <1>7, <2>1 DEF readyz
    <3>2. /\ probe' \in [pc : {"idle", "checking"}, ready : BOOLEAN, on : BOOLEAN]
          /\ probe'.pc = "idle"
      BY <1>7, <3>1 DEF readyz
    <3>3. ~probe'.ready /\ probe'.on = probe.on
      BY <1>7, <3>1, Zenon
    <3> QED BY <1>7, <3>1, <3>2, <3>3 DEF readyz
  <2>2. CASE ~Off
    <3>1. probe' = [probe EXCEPT !.pc = "checking"] /\ rounds' = rounds /\ ~flags.unready
      BY <1>7, <2>2 DEF readyz, Off
    <3>2. probe' \in [pc : {"idle", "checking"}, ready : BOOLEAN, on : BOOLEAN]
      BY <3>1
    <3>3. probe'.on = probe.on
      BY <3>1, Zenon
    <3> QED BY <1>7, <3>1, <3>2, <3>3 DEF readyz
  <2> QED BY <2>1, <2>2
<1>8. CASE ReadinessReport
  <2> PICK ready \in BOOLEAN : probe' = [probe EXCEPT !.pc = "idle", !.ready = ready]
    BY <1>8 DEF ReadinessReport
  <2>1. /\ probe' \in [pc : {"idle", "checking"}, ready : BOOLEAN, on : BOOLEAN]
        /\ probe'.pc = "idle"
    OBVIOUS
  <2>2. probe'.on = probe.on
    BY Zenon
  <2> QED BY <1>8, <2>1, <2>2 DEF ReadinessReport
<1>9. ASSUME NEW r \in Requests, Send(r)
      PROVE  ApiInv'
  <2>1. probe.on /\ rounds = 0
    BY <1>9 DEF Send
  <2>2. listening /\ ~served
    BY <2>1
  <2>3. request' = [request EXCEPT ![r] = "handled"]
    BY <1>9, <2>2 DEF Send
  <2> QED BY <1>9, <2>2, <2>3 DEF Send
<1>10. ASSUME NEW r \in Requests, Answer(r)
       PROVE  ApiInv'
  BY <1>10 DEF Answer
<1> QED BY <1>1, <1>2, <1>3, <1>4, <1>5, <1>6, <1>7, <1>8, <1>9, <1>10 DEF ApiNext, Shutdown

-----------------------------------------------------------------------------
(* A secret.                                                               *)

Active == {"write", "rename"}
Texts == {"absent", "old"} \cup Writers
Jobs ==
  [pc : {"idle", "create", "release", "confirm"} \cup Active, tries : Nat, temp : Nat \X Nat,
   stored : BOOLEAN, result : {"none", "ok", "error"}]

\* What a thread knows: its temporary file is its own until it is renamed,
\* and whether its value got to the path.
Knows(w) ==
  LET k == writer[w]
  IN /\ k.pc \in Active => k.temp \in DOMAIN temps \ left
     /\ k.pc = "rename" => temps[k.temp] = w
     /\ k.pc \in Active \cup {"create"} => ~k.stored /\ k.result = "none"
     /\ k.pc \in {"release", "confirm"} => k.stored /\ os = "windows" /\ k.result = "none"
     /\ k.result = "ok" => k.stored
     /\ k.result = "error" /\ os = "unix" => ~k.stored

SecretsInv ==
  /\ os \in {"unix", "windows"} /\ target \in [text : Texts, private : BOOLEAN]
  /\ counter \in [Pids -> Nat] /\ pid \in [Writers -> Pids] /\ writer \in [Writers -> Jobs]
  /\ left \subseteq DOMAIN temps
  /\ \A w \in Writers : Knows(w)
  /\ \A v, w \in Writers :
       v # w /\ writer[v].pc \in Active /\ writer[w].pc \in Active => writer[v].temp # writer[w].temp
  /\ \A n \in DOMAIN temps : n \in left \/ \E w \in Writers : writer[w].pc \in Active /\ writer[w].temp = n

\* A step of one thread that keeps to its own temporary file.
LEMMA ThreadStep ==
    ASSUME SecretsInv, NEW w \in Writers, NEW k \in Jobs, Step(w, k),
           UNCHANGED <<os, pid>>, target' \in [text : Texts, private : BOOLEAN],
           counter' \in [Pids -> Nat], left' \subseteq DOMAIN temps',
           \* the others' files stay as they are
           \A n : n \in DOMAIN temps /\ n # writer[w].temp =>
                    n \in DOMAIN temps' /\ temps'[n] = temps[n] /\ (n \in left' => n \in left),
           writer[w].pc \notin Active =>
                    \A n \in DOMAIN temps : n \in DOMAIN temps' /\ temps'[n] = temps[n] /\ (n \in left' => n \in left),
           left \subseteq left',
           \* what is new is the thread's own, or left behind
           \A n \in DOMAIN temps' : \/ n \in left' \/ (n \in DOMAIN temps /\ n # writer[w].temp)
                                    \/ (n \in DOMAIN temps /\ writer[w].pc \notin Active)
                                    \/ (k.pc \in Active /\ k.temp = n),
           \* and so is what the thread works on
           k.pc \in Active =>
              /\ k.temp \in DOMAIN temps' \ left'
              /\ k.temp \notin DOMAIN temps \/ (k.temp = writer[w].temp /\ writer[w].pc \in Active),
           k.pc = "rename" => temps'[k.temp] = w,
           k.pc \in Active \cup {"create"} => ~k.stored /\ k.result = "none",
           k.pc \in {"release", "confirm"} => k.stored /\ os = "windows" /\ k.result = "none",
           k.result = "ok" => k.stored,
           k.result = "error" /\ os = "unix" => ~k.stored
    PROVE  SecretsInv'
<1>1. /\ writer' \in [Writers -> Jobs] /\ writer'[w] = k
      /\ \A v \in Writers \ {w} : writer'[v] = writer[v]
  BY DEF SecretsInv, Step
<1>2. Knows(w)'
  BY <1>1 DEF Knows
<1>3. ASSUME NEW v \in Writers \ {w}, writer[v].pc \in Active
      PROVE  /\ writer[v].temp \in DOMAIN temps' \ left'
             /\ temps'[writer[v].temp] = temps[writer[v].temp]
             /\ k.pc \in Active => k.temp # writer[v].temp
  <2>1. writer[v].temp \in DOMAIN temps \ left
    BY <1>3 DEF SecretsInv, Knows
  <2>2. writer[w].pc \in Active => writer[v].temp # writer[w].temp
    BY <1>3 DEF SecretsInv
  <2> QED BY <2>1, <2>2
<1>4. ASSUME NEW v \in Writers \ {w}
      PROVE  Knows(v)'
  <2>1. Knows(v) /\ writer'[v] = writer[v] /\ os' = os
    BY <1>1 DEF SecretsInv
  <2> QED BY <1>3, <2>1 DEF Knows, Active
<1>5. \A u, v \in Writers :
        u # v /\ writer'[u].pc \in Active /\ writer'[v].pc \in Active => writer'[u].temp # writer'[v].temp
  BY <1>1, <1>3 DEF SecretsInv
<1>6. ASSUME NEW n \in DOMAIN temps', n \notin left'
      PROVE  \E v \in Writers : writer'[v].pc \in Active /\ writer'[v].temp = n
  <2>1. CASE k.pc \in Active /\ k.temp = n
    BY <1>1, <2>1
  <2>2. CASE n \in DOMAIN temps /\ (n # writer[w].temp \/ writer[w].pc \notin Active)
    <3>1. PICK v \in Writers : writer[v].pc \in Active /\ writer[v].temp = n
      BY <1>6, <2>2 DEF SecretsInv
    <3>2. v # w
      BY <2>2, <3>1
    <3> QED BY <1>1, <3>1, <3>2
  <2> QED BY <1>6, <2>1, <2>2
<1> QED BY <1>1, <1>2, <1>4, <1>5, <1>6 DEF SecretsInv

\* The data of a thread that is idle.
LEMMA Idles == Idle \in Jobs /\ Idle.pc = "idle" /\ Idle.result = "none" /\ ~Idle.stored
BY DEF Idle, Jobs

\* How a thread ends.
LEMMA Ends ==
    ASSUME NEW w \in Writers, writer[w] \in Jobs, NEW r \in {"none", "ok", "error"}, End(w, r)
    PROVE  \E k \in Jobs : /\ Step(w, k) /\ k.pc = "idle" /\ k.result = r
                           /\ k.stored = writer[w].stored
<1> PICK j \in Jobs : j = writer[w]
  OBVIOUS
<1> PICK k : k = [Idle EXCEPT !.stored = j.stored, !.result = r]
  OBVIOUS
<1>1. k.stored = j.stored /\ j.stored \in BOOLEAN
  BY Idles, Zenon DEF Jobs
<1>4. k \in Jobs /\ k.pc = "idle" /\ k.result = r
  BY <1>1, Idles DEF Jobs
<1>2. Step(w, k)
  BY DEF End
<1>3. k.stored = writer[w].stored
  BY <1>1, Zenon
<1> QED BY <1>2, <1>3, <1>4

\* What is done to the temporary files.
LEMMA Dropped ==
    ASSUME NEW n, temps' = Without(n)
    PROVE  /\ DOMAIN temps' = DOMAIN temps \ {n}
           /\ \A m \in DOMAIN temps \ {n} : temps'[m] = temps[m]
BY DEF Without

\* A thread that gives up drops its temporary file or leaves it behind.
LEMMA GiveUp ==
    ASSUME SecretsInv, NEW w \in Writers, writer[w].pc \in Active,
           Discard(writer[w].temp), End(w, "error"),
           UNCHANGED <<os, target, counter, pid>>
    PROVE  SecretsInv'
<1>0. writer[w] \in Jobs /\ Knows(w) /\ writer[w].temp \in DOMAIN temps
  BY DEF SecretsInv, Knows
<1> PICK k \in Jobs : /\ Step(w, k) /\ k.pc = "idle" /\ k.result = "error"
                      /\ k.stored = writer[w].stored
  BY <1>0, Ends
<1>1. ~k.stored
  BY <1>0 DEF Knows, Active
<1>2. k.pc \notin Active \cup {"create", "rename", "release", "confirm"} /\ k.result # "ok"
  BY DEF Active
<1>3. CASE temps' = Without(writer[w].temp) /\ left' = left
  <2>1. /\ DOMAIN temps' = DOMAIN temps \ {writer[w].temp}
        /\ \A m \in DOMAIN temps \ {writer[w].temp} : temps'[m] = temps[m]
    BY <1>3, Dropped
  <2>2. writer[w].temp \notin left /\ left \subseteq DOMAIN temps
    BY <1>0 DEF Knows, SecretsInv
  <2>3. target' \in [text : Texts, private : BOOLEAN] /\ counter' \in [Pids -> Nat]
    BY DEF SecretsInv
  <2> QED BY <1>0, <1>1, <1>2, <1>3, <2>1, <2>2, <2>3, ThreadStep
<1>4. CASE left' = left \cup {writer[w].temp} /\ temps' = temps
  <2>1. left' \subseteq DOMAIN temps'
    BY <1>0, <1>4 DEF SecretsInv
  <2>2. target' \in [text : Texts, private : BOOLEAN] /\ counter' \in [Pids -> Nat]
    BY DEF SecretsInv
  <2> QED BY <1>0, <1>1, <1>2, <1>4, <2>1, <2>2, ThreadStep
<1> QED BY <1>3, <1>4 DEF Discard

\* Every step of a thread keeps the invariant, and so does a kill.
LEMMA SecretsStep ==
    ASSUME SecretsInv, SecretsNext
    PROVE  SecretsInv'
<1>0. /\ target \in [text : Texts, private : BOOLEAN] /\ left \subseteq DOMAIN temps
      /\ counter \in [Pids -> Nat] /\ pid \in [Writers -> Pids] /\ writer \in [Writers -> Jobs]
  BY DEF SecretsInv
<1>1. ASSUME NEW w \in Writers, write_file(w)
      PROVE  SecretsInv'
  <2> PICK k : k = [Idle EXCEPT !.pc = "create"]
    OBVIOUS
  <2>1. k \in Jobs /\ k.pc = "create" /\ k.result = "none" /\ ~k.stored
    BY Idles DEF Jobs
  <2>2. Step(w, k) /\ writer[w].pc = "idle" /\ UNCHANGED <<os, target, temps, counter, pid, left>>
    BY <1>1 DEF write_file
  <2> QED BY <1>0, <2>1, <2>2, ThreadStep DEF Active
<1>2. ASSUME NEW w \in Writers, create_new_private(w)
      PROVE  SecretsInv'
  <2>0. /\ writer[w].pc = "create" /\ writer[w] \in Jobs /\ ~writer[w].stored /\ writer[w].result = "none"
        /\ UNCHANGED <<os, target, pid>> /\ counter' \in [Pids -> Nat]
    <3>1. counter' \in [Pids -> Nat]
      BY <1>0, <1>2 DEF create_new_private
    <3> QED BY <1>0, <1>2, <3>1 DEF create_new_private, SecretsInv, Knows
  <2> PICK name : name = <<pid[w], counter[pid[w]]>>
    OBVIOUS
  <2>1. name \in Nat \X Nat
    BY <1>0 DEF Pids
  <2>2. CASE End(w, "error") /\ UNCHANGED <<temps, left>>
    <3> PICK k \in Jobs : /\ Step(w, k) /\ k.pc = "idle" /\ k.result = "error"
                          /\ k.stored = writer[w].stored
      BY <2>0, <2>2, Ends
    <3>1. ~k.stored
      BY <2>0, Zenon
    <3> QED BY <1>0, <2>0, <2>2, <3>1, ThreadStep DEF Active
  <2>3. CASE Step(w, [writer[w] EXCEPT !.tries = @ + 1]) /\ UNCHANGED <<temps, left>>
    <3> PICK k : k = [writer[w] EXCEPT !.tries = @ + 1]
      OBVIOUS
    <3>1. k \in Jobs /\ k.pc = "create" /\ k.result = "none" /\ Step(w, k)
      BY <2>0, <2>3 DEF Jobs
    <3>2. ~k.stored
      BY <2>0, Zenon DEF Jobs
    <3> QED BY <1>0, <2>0, <2>3, <3>1, <3>2, ThreadStep DEF Active
  <2>4. CASE /\ name \notin DOMAIN temps /\ temps' = With(name, "torn") /\ left' = left
             /\ Step(w, [writer[w] EXCEPT !.pc = "write", !.temp = name])
    <3> PICK k : k = [writer[w] EXCEPT !.pc = "write", !.temp = name]
      OBVIOUS
    <3>0. k \in Jobs /\ k.pc = "write" /\ k.result = "none" /\ k.temp = name
      BY <2>0, <2>1, ZenonT(60) DEF Jobs, Active
    <3>1. k \in Jobs /\ k.pc = "write" /\ k.result = "none" /\ k.temp = name /\ Step(w, k)
      BY <2>4, <3>0
    <3>2. ~k.stored
      BY <2>0, Zenon DEF Jobs
    <3>3. DOMAIN temps' = DOMAIN temps \cup {name} /\ \A m \in DOMAIN temps : temps'[m] = temps[m]
      BY <2>4 DEF With
    <3>4. left' \subseteq DOMAIN temps' /\ name \notin left
      BY <1>0, <2>4, <3>3
    <3>5. name \in DOMAIN temps' \ left'
      BY <2>4, <3>3, <3>4
    <3>6. \A n \in DOMAIN temps' : n \in DOMAIN temps \/ n = name
      BY <3>3
    <3> QED BY <1>0, <2>0, <2>4, <3>1, <3>2, <3>3, <3>4, <3>5, <3>6, ThreadStep, ZenonT(60) DEF Active
  <2>5. CASE /\ name \notin DOMAIN temps /\ temps' = With(name, "torn") /\ left' = left \cup {name}
             /\ End(w, "error")
    <3> PICK k \in Jobs : /\ Step(w, k) /\ k.pc = "idle" /\ k.result = "error"
                          /\ k.stored = writer[w].stored
      BY <2>0, <2>5, Ends
    <3>1. ~k.stored
      BY <2>0, Zenon
    <3>2. DOMAIN temps' = DOMAIN temps \cup {name} /\ \A m \in DOMAIN temps : temps'[m] = temps[m]
      BY <2>5 DEF With
    <3> QED BY <1>0, <2>0, <2>5, <3>1, <3>2, ThreadStep DEF Active
  <2> QED BY <1>2, <2>2, <2>3, <2>4, <2>5 DEF create_new_private
<1>3. ASSUME NEW w \in Writers, write_all(w)
      PROVE  SecretsInv'
  <2>0. /\ writer[w].pc = "write" /\ writer[w] \in Jobs /\ ~writer[w].stored /\ writer[w].result = "none"
        /\ writer[w].temp \in DOMAIN temps \ left /\ UNCHANGED <<os, target, counter, pid>>
    BY <1>0, <1>3 DEF write_all, SecretsInv, Knows, Active
  <2>1. CASE /\ temps' = With(writer[w].temp, w) /\ left' = left
             /\ Step(w, [writer[w] EXCEPT !.pc = "rename"])
    <3> PICK k : k = [writer[w] EXCEPT !.pc = "rename"]
      OBVIOUS
    <3>1. k \in Jobs /\ k.pc = "rename" /\ k.result = "none" /\ k.temp = writer[w].temp /\ Step(w, k)
      BY <2>0, <2>1 DEF Jobs, Active
    <3>2. ~k.stored
      BY <2>0, Zenon DEF Jobs
    <3>3. /\ DOMAIN temps' = DOMAIN temps /\ temps'[writer[w].temp] = w
          /\ \A m \in DOMAIN temps \ {writer[w].temp} : temps'[m] = temps[m]
      BY <2>0, <2>1 DEF With
    <3> QED BY <1>0, <2>0, <2>1, <3>1, <3>2, <3>3, ThreadStep DEF Active
  <2> QED BY <1>3, <2>0, <2>1, GiveUp DEF write_all, Active
<1>4. ASSUME NEW w \in Writers, replace(w)
      PROVE  SecretsInv'
  <2>0. /\ writer[w].pc = "rename" /\ writer[w] \in Jobs
        /\ writer[w].temp \in DOMAIN temps \ left /\ temps[writer[w].temp] = w
        /\ UNCHANGED <<os, counter, pid>> /\ os \in {"unix", "windows"}
    BY <1>0, <1>4 DEF replace, SecretsInv, Knows, Active
  <2>1. ASSUME temps' = Without(writer[w].temp), target' = File(temps[writer[w].temp], TRUE),
               left' = left, NEW k \in Jobs, Step(w, k), k.stored,
               \/ os = "unix" /\ k.pc = "idle" /\ k.result = "ok"
               \/ os = "windows" /\ k.pc = "release" /\ k.result = "none"
        PROVE  SecretsInv'
    <3>1. target' \in [text : Texts, private : BOOLEAN]
      BY <2>0, <2>1 DEF File, Texts
    <3>2. /\ DOMAIN temps' = DOMAIN temps \ {writer[w].temp}
          /\ \A m \in DOMAIN temps \ {writer[w].temp} : temps'[m] = temps[m]
      BY <2>1, Dropped
    <3>3. k.pc \notin Active \cup {"create", "rename"} /\ k.result # "error"
      BY <2>1 DEF Active
    <3> QED BY <1>0, <2>0, <2>1, <3>1, <3>2, <3>3, ThreadStep DEF Active
  <2>2. CASE /\ temps' = Without(writer[w].temp) /\ target' = File(temps[writer[w].temp], TRUE)
             /\ left' = left /\ os = "unix" /\ Step(w, [Idle EXCEPT !.stored = TRUE, !.result = "ok"])
    <3> PICK k : k = [Idle EXCEPT !.stored = TRUE, !.result = "ok"]
      OBVIOUS
    <3>1. k \in Jobs /\ k.pc = "idle" /\ k.result = "ok" /\ k.stored
      BY Idles DEF Jobs
    <3> QED BY <2>1, <2>2, <3>1
  <2>3. CASE /\ temps' = Without(writer[w].temp) /\ target' = File(temps[writer[w].temp], TRUE)
             /\ left' = left /\ os # "unix" /\ Step(w, [Idle EXCEPT !.pc = "release", !.stored = TRUE])
    <3> PICK k : k = [Idle EXCEPT !.pc = "release", !.stored = TRUE]
      OBVIOUS
    <3>1. k \in Jobs /\ k.pc = "release" /\ k.result = "none" /\ k.stored
      BY Idles DEF Jobs
    <3> QED BY <2>0, <2>1, <2>3, <3>1
  <2> QED BY <1>4, <2>0, <2>2, <2>3, GiveUp DEF replace, Active
<1>5. ASSUME NEW w \in Writers, release(w)
      PROVE  SecretsInv'
  <2> PICK k : k = [writer[w] EXCEPT !.pc = "confirm"]
    OBVIOUS
  <2>0. /\ writer[w].pc = "release" /\ writer[w] \in Jobs /\ Knows(w) /\ Step(w, k)
        /\ UNCHANGED <<os, target, temps, counter, pid, left>>
    BY <1>0, <1>5 DEF release, SecretsInv
  <2>1. k \in Jobs /\ k.pc = "confirm" /\ k.result = "none"
    BY <2>0 DEF Jobs, Knows
  <2>2. k.stored = writer[w].stored
    BY <2>0, Zenon DEF Jobs
  <2> QED BY <1>0, <2>0, <2>1, <2>2, ThreadStep DEF Active, Knows
<1>6. ASSUME NEW w \in Writers, confirm(w)
      PROVE  SecretsInv'
  <2>0. /\ writer[w].pc = "confirm" /\ writer[w] \in Jobs /\ Knows(w)
        /\ End(w, IF open_private = "ok" THEN "ok" ELSE "error")
        /\ UNCHANGED <<os, target, temps, counter, pid, left>>
    BY <1>0, <1>6 DEF confirm, SecretsInv
  <2> PICK r \in {"ok", "error"} : End(w, r)
    BY <2>0
  <2> PICK k \in Jobs : /\ Step(w, k) /\ k.pc = "idle" /\ k.result = r
                        /\ k.stored = writer[w].stored
    BY <2>0, Ends
  <2>1. writer[w].stored /\ os = "windows"
    BY <2>0 DEF Knows
  <2>2. k.stored
    BY <2>1, Zenon
  <2> QED BY <1>0, <2>0, <2>1, <2>2, ThreadStep DEF Active
<1>7. ASSUME NEW w \in Writers, delete_file(w)
      PROVE  SecretsInv'
  <2>1. target' \in [text : Texts, private : BOOLEAN]
    BY <1>7 DEF delete_file, NoFile, File, Texts
  <2> QED BY <1>7, <2>1 DEF delete_file, SecretsInv, Knows
<1>8. ASSUME NEW p \in Pids, Kill(p)
      PROVE  SecretsInv'
  <2> DEFINE dead == {w \in Writers : pid[w] = p}
  <2>1. /\ writer' = [w \in Writers |-> IF w \in dead THEN Idle ELSE writer[w]]
        /\ left' = left \cup {writer[w].temp : w \in {v \in dead : writer[v].pc \in Active}}
        /\ UNCHANGED <<os, target, temps, pid>> /\ counter' = [counter EXCEPT ![p] = 0]
    BY <1>8 DEF Kill, Active
  <2>2. /\ \A w \in dead : writer'[w] = Idle
        /\ \A w \in Writers \ dead : writer'[w] = writer[w]
        /\ writer' \in [Writers -> Jobs]
    BY <1>0, <2>1, Idles
  <2> HIDE DEF dead
  <2>3. left' \subseteq DOMAIN temps' /\ counter' \in [Pids -> Nat]
    BY <1>0, <2>1 DEF SecretsInv, Knows, dead
  <2>4. ASSUME NEW w \in Writers
        PROVE  Knows(w)'
    <3>1. CASE w \in dead
      BY <2>2, <3>1, Idles DEF Knows, Active
    <3>2. CASE w \notin dead
      <4>1. writer'[w] = writer[w] /\ Knows(w)
        BY <2>2, <3>2 DEF SecretsInv
      <4>2. writer[w].pc \in Active => writer[w].temp \notin left'
        BY <2>1, <3>2, <4>1 DEF SecretsInv, Knows, dead
      <4> QED BY <2>1, <4>1, <4>2 DEF Knows
    <3> QED BY <3>1, <3>2
  <2>5. \A v, w \in Writers :
          v # w /\ writer'[v].pc \in Active /\ writer'[w].pc \in Active => writer'[v].temp # writer'[w].temp
    BY <2>2, Idles DEF SecretsInv, Active
  <2>6. ASSUME NEW n \in DOMAIN temps', n \notin left'
        PROVE  \E w \in Writers : writer'[w].pc \in Active /\ writer'[w].temp = n
    <3>1. PICK w \in Writers : writer[w].pc \in Active /\ writer[w].temp = n
      BY <2>1, <2>6 DEF SecretsInv
    <3>2. w \notin dead
      BY <2>1, <2>6, <3>1
    <3> QED BY <2>2, <3>1, <3>2
  <2> QED BY <1>0, <2>1, <2>2, <2>3, <2>4, <2>5, <2>6 DEF SecretsInv
<1> QED BY <1>1, <1>2, <1>3, <1>4, <1>5, <1>6, <1>7, <1>8 DEF SecretsNext

-----------------------------------------------------------------------------
(* The plugins.                                                            *)

Entries == [path : Manifests, enabled : BOOLEAN]
ConfigsOf(ids) == [ids -> Entries]
AllConfigs == UNION {ConfigsOf(ids) : ids \in SUBSET Plugs}

PluginsInv ==
  /\ config \in AllConfigs
  /\ saved = <<>> \/ \E c \in AllConfigs : saved = <<c>>
  /\ \A id \in DOMAIN loaded : loaded[id] \in {"first", "second"}
  /\ ~reloaded => \A id \in DOMAIN loaded : id \in DOMAIN config /\ config[id].enabled

\* A configuration is in order; so is one with an entry more or less.
LEMMA Configured ==
    ASSUME NEW c \in AllConfigs
    PROVE  /\ DOMAIN c \subseteq Plugs /\ \A id \in DOMAIN c : c[id] \in Entries
           /\ \A id \in Plugs, e \in Entries : Upd(c, id, e) \in AllConfigs
           /\ \A id : Del(c, id) \in AllConfigs
<1> PICK ids \in SUBSET Plugs : c \in [ids -> Entries]
  BY DEF AllConfigs, ConfigsOf
<1>1. ASSUME NEW id \in Plugs, NEW e \in Entries
      PROVE  Upd(c, id, e) \in AllConfigs
  <2>1. Upd(c, id, e) \in ConfigsOf(ids \cup {id}) /\ ids \cup {id} \in SUBSET Plugs
    BY DEF Upd, ConfigsOf
  <2> QED BY <2>1 DEF AllConfigs
<1>2. ASSUME NEW id
      PROVE  Del(c, id) \in AllConfigs
  <2>1. Del(c, id) \in ConfigsOf(ids \ {id}) /\ ids \ {id} \in SUBSET Plugs
    BY DEF Del, ConfigsOf
  <2> QED BY <2>1 DEF AllConfigs
<1> QED BY <1>1, <1>2

\* What can be loaded lies in the registry's directory.
LEMMA Loadable == \A path \in Manifests : Loads(path) => path \in {"first", "second"}
BY DEF Loads, validate_manifest_path, Manifests

\* Every operation of the registry keeps its invariant.
LEMMA PluginsStep ==
    ASSUME PluginsInv, PluginsNext
    PROVE  PluginsInv'
<1>1. CASE load
  <2> PICK found \in AllConfigs : found = IF saved = <<>> THEN config ELSE saved[1]
    BY DEF PluginsInv
  <2> DEFINE new == {id \in DOMAIN found : found[id].enabled /\ Loads(found[id].path)}
  <2>1. /\ config' = found /\ reloaded' = (reloaded \/ config # Nothing) /\ UNCHANGED saved
        /\ loaded' = [id \in DOMAIN loaded \cup new |-> IF id \in new THEN found[id].path ELSE loaded[id]]
    BY <1>1 DEF load
  <2>2. \A id \in new : id \in DOMAIN found /\ found[id].enabled /\ found[id].path \in {"first", "second"}
    BY Configured, Loadable DEF Entries
  <2> HIDE DEF new
  <2>3. DOMAIN loaded' = DOMAIN loaded \cup new
    BY <2>1
  <2>4. \A id \in DOMAIN loaded' : loaded'[id] \in {"first", "second"}
    BY <2>1, <2>2, <2>3 DEF PluginsInv
  <2>5. ASSUME ~reloaded'
        PROVE  DOMAIN loaded = {}
    <3>1. ~reloaded /\ config = Nothing
      BY <2>1, <2>5
    <3> QED BY <3>1 DEF PluginsInv, Nothing
  <2>6. ~reloaded' => \A id \in DOMAIN loaded' : id \in DOMAIN config' /\ config'[id].enabled
    BY <2>1, <2>2, <2>3, <2>5
  <2> QED BY <2>1, <2>4, <2>6 DEF PluginsInv
<1>2. CASE save
  BY <1>2 DEF save, PluginsInv
<1>3. ASSUME NEW id \in Plugs, NEW path \in Manifests, register_plugin(id, path)
      PROVE  PluginsInv'
  <2> PICK e : e = Entry(path, TRUE)
    OBVIOUS
  <2>0. e \in Entries /\ e.path = path /\ e.enabled
    BY DEF Entry, Entries
  <2>1. config' = Upd(config, id, e) /\ UNCHANGED <<saved, reloaded>>
    BY <1>3 DEF register_plugin
  <2>2. config' \in AllConfigs
    BY <2>0, <2>1, Configured DEF PluginsInv
  <2>3. /\ DOMAIN config' = DOMAIN config \cup {id} /\ config'[id] = e
        /\ \A i \in DOMAIN config \ {id} : config'[i] = config[i]
    BY <2>1 DEF Upd
  <2>4. loaded' = IF Loads(path) THEN Upd(loaded, id, path) ELSE loaded
    BY <1>3 DEF register_plugin
  <2>5. \A i \in DOMAIN loaded' : /\ i = id \/ i \in DOMAIN loaded
                                  /\ loaded'[i] \in {"first", "second"}
    BY <2>4, Loadable DEF Upd, PluginsInv
  <2> QED BY <2>0, <2>1, <2>2, <2>3, <2>5 DEF PluginsInv
<1>4. ASSUME NEW id \in Plugs, unregister_plugin(id)
      PROVE  PluginsInv'
  <2>1. config' = Del(config, id) /\ loaded' = Del(loaded, id) /\ UNCHANGED <<saved, reloaded>>
    BY <1>4 DEF unregister_plugin
  <2>2. config' \in AllConfigs
    BY <2>1, Configured DEF PluginsInv
  <2> QED BY <2>1, <2>2 DEF PluginsInv, Del
<1>5. ASSUME NEW id \in Plugs, NEW enabled \in BOOLEAN, set_plugin_enabled(id, enabled)
      PROVE  PluginsInv'
  <2>0. id \in DOMAIN config /\ config[id] \in Entries /\ UNCHANGED <<saved, reloaded>>
    BY <1>5, Configured DEF set_plugin_enabled, PluginsInv
  <2> PICK e : e = [config[id] EXCEPT !.enabled = enabled]
    OBVIOUS
  <2>1. e \in Entries /\ e.path = config[id].path
    BY <2>0 DEF Entries
  <2>2. e.enabled = enabled
    BY <2>0, Zenon DEF Entries
  <2>3. config' = [config EXCEPT ![id] = e]
    BY <1>5 DEF set_plugin_enabled
  <2>4. config' \in AllConfigs
    <3> PICK ids \in SUBSET Plugs : config \in [ids -> Entries]
      BY DEF PluginsInv, AllConfigs, ConfigsOf
    <3>1. config' \in ConfigsOf(ids)
      BY <2>1, <2>3 DEF ConfigsOf
    <3> QED BY <3>1 DEF AllConfigs
  <2>5. /\ DOMAIN config' = DOMAIN config /\ config'[id] = e
        /\ \A i \in DOMAIN config \ {id} : config'[i] = config[i]
    BY <2>0, <2>3 DEF PluginsInv, AllConfigs, ConfigsOf
  <2>6. CASE ~enabled
    <3>1. loaded' = Del(loaded, id)
      BY <1>5, <2>6 DEF set_plugin_enabled
    <3> QED BY <2>0, <2>4, <2>5, <3>1 DEF PluginsInv, Del
  <2>7. CASE enabled
    <3>1. loaded' = IF Loads(config[id].path) THEN Upd(loaded, id, config[id].path) ELSE loaded
      BY <1>5, <2>7 DEF set_plugin_enabled
    <3>2. Loads(config[id].path) => config[id].path \in {"first", "second"}
      BY <2>0, Loadable DEF Entries
    <3>3. \A i \in DOMAIN loaded' : /\ i = id \/ i \in DOMAIN loaded
                                    /\ loaded'[i] \in {"first", "second"}
      BY <3>1, <3>2 DEF Upd, PluginsInv
    <3>4. config'[id].enabled
      BY <2>2, <2>5, <2>7
    <3> QED BY <2>0, <2>4, <2>5, <3>3, <3>4 DEF PluginsInv
  <2> QED BY <2>6, <2>7
<1> QED BY <1>1, <1>2, <1>3, <1>4, <1>5 DEF PluginsNext

-----------------------------------------------------------------------------
(* The doctor.                                                             *)

CheckIds == Registry \cup {Unknown, "", "unknown", "usage"}
FindingSet == [check : CheckIds, severity : Severities \cup {"none"}, about : Nat]

\* The findings among the first m places.
KeptUpTo(s, m, f) ==
  f = [n \in 0 .. m |->
         IF n = 0 THEN <<>> ELSE IF s[n] = Blank THEN f[n - 1] ELSE Append(f[n - 1], s[n])]

\* The flattening is a function on the number of places.
LEMMA KeptExists ==
    ASSUME NEW s \in Seq(FindingSet)
    PROVE  \E f : KeptUpTo(s, Len(s), f)
<1> DEFINE S == {m \in Nat : ~\E f : KeptUpTo(s, m, f)}
           one(f, n) == IF n = 0 THEN <<>> ELSE IF s[n] = Blank THEN f[n - 1] ELSE Append(f[n - 1], s[n])
<1>1. ASSUME S # {} PROVE FALSE
  <2>1. PICK m \in S : \A j \in S : m <= j
    BY <1>1, Smallest
  <2>2. m # 0
    <3> DEFINE f == [n \in 0 .. 0 |-> <<>>]
    <3>1. f = [n \in 0 .. 0 |-> one(f, n)]
      OBVIOUS
    <3>2. KeptUpTo(s, 0, f)
      BY <3>1 DEF KeptUpTo
    <3> QED BY <2>1, <3>2
  <2>3. m - 1 \in Nat /\ m - 1 \notin S
    BY <2>1, <2>2
  <2>4. PICK g : KeptUpTo(s, m - 1, g)
    BY <2>3
  <2> DEFINE f == [n \in 0 .. m |-> IF n = m THEN one(g, m) ELSE g[n]]
  <2>5. \A n \in 0 .. m - 1 : g[n] = one(g, n)
    BY <2>4 DEF KeptUpTo
  <2>6. \A n \in 0 .. m : f[n] = one(f, n)
    <3> TAKE n \in 0 .. m
    <3>0. m \in Nat /\ m # 0
      BY <2>1, <2>2
    <3>1. CASE n = m
      <4>1. f[n] = one(g, m) /\ f[n - 1] = g[m - 1]
        BY <3>0, <3>1
      <4> HIDE DEF f
      <4> QED BY <3>0, <3>1, <4>1
    <3>2. CASE n # m
      <4>1. n \in 0 .. m - 1 /\ (n # 0 => n - 1 \in 0 .. m - 1 /\ n - 1 # m)
        BY <3>0, <3>2
      <4>2. f[n] = g[n] /\ (n # 0 => f[n - 1] = g[n - 1])
        BY <3>0, <3>2, <4>1
      <4> HIDE DEF f
      <4> QED BY <2>5, <4>1, <4>2
    <3> QED BY <3>1, <3>2
  <2>7. f = [n \in 0 .. m |-> f[n]]
    OBVIOUS
  <2> HIDE DEF f
  <2>8. f = [n \in 0 .. m |-> one(f, n)]
    BY <2>6, <2>7
  <2>9. KeptUpTo(s, m, f)
    BY <2>8 DEF KeptUpTo
  <2> QED BY <2>1, <2>9
<1>2. Len(s) \in Nat
  BY LenProperties
<1> QED BY <1>1, <1>2

\* The flattening, place by place.
LEMMA KeptSteps ==
    ASSUME NEW s \in Seq(FindingSet)
    PROVE  \E f : /\ Present(s) = f[Len(s)] /\ f[0] = <<>>
                  /\ \A n \in 1 .. Len(s) : f[n] = IF s[n] = Blank THEN f[n - 1] ELSE Append(f[n - 1], s[n])
<1> DEFINE f == CHOOSE g : KeptUpTo(s, Len(s), g)
<1>1. KeptUpTo(s, Len(s), f)
  BY KeptExists
<1>2. Present(s) = f[Len(s)]
  BY DEF Present, KeptUpTo
<1>3. Len(s) \in Nat
  BY LenProperties
<1> HIDE DEF f
<1>4. \A n \in 0 .. Len(s) :
        f[n] = IF n = 0 THEN <<>> ELSE IF s[n] = Blank THEN f[n - 1] ELSE Append(f[n - 1], s[n])
  BY <1>1 DEF KeptUpTo
<1>5. f[0] = <<>>
  BY <1>3, <1>4
<1>6. \A n \in 1 .. Len(s) : f[n] = IF s[n] = Blank THEN f[n - 1] ELSE Append(f[n - 1], s[n])
  BY <1>3, <1>4
<1> QED BY <1>2, <1>5, <1>6

\* t holds the findings of the first n places of s, and no other, in their order.
Flattened(s, n, t) ==
  /\ t \in Seq(FindingSet) /\ Len(t) <= n
  /\ \A i \in 1 .. n : s[i] # Blank => \E k \in 1 .. Len(t) : t[k] = s[i]
  /\ \A k \in 1 .. Len(t) : \E i \in 1 .. n : s[i] # Blank /\ t[k] = s[i]
  /\ \A k, l \in 1 .. Len(t) : k < l =>
       \E i, j \in 1 .. n : i < j /\ t[k] = s[i] /\ t[l] = s[j]

\* A place more.
LEMMA FlattenedStep ==
    ASSUME NEW s \in Seq(FindingSet), NEW n \in 1 .. Len(s), NEW t, Flattened(s, n - 1, t)
    PROVE  Flattened(s, n, IF s[n] = Blank THEN t ELSE Append(t, s[n]))
<1>1. /\ n \in Nat /\ n >= 1 /\ s[n] \in FindingSet /\ t \in Seq(FindingSet) /\ Len(t) \in Nat
      /\ Len(t) <= n - 1 /\ n \in 1 .. n
  BY LenProperties, ElementOfSeq DEF Flattened
<1>2. 1 .. n = (1 .. n - 1) \cup {n}
  BY <1>1
<1>3. CASE s[n] = Blank
  <2>1. \A i \in 1 .. n : s[i] # Blank => \E k \in 1 .. Len(t) : t[k] = s[i]
    BY <1>2, <1>3 DEF Flattened
  <2>2. \A k \in 1 .. Len(t) : \E i \in 1 .. n : s[i] # Blank /\ t[k] = s[i]
    BY <1>2 DEF Flattened
  <2>3. \A k, l \in 1 .. Len(t) : k < l => \E i, j \in 1 .. n : i < j /\ t[k] = s[i] /\ t[l] = s[j]
    BY <1>2 DEF Flattened
  <2>4. Len(t) <= n
    BY <1>1
  <2> QED BY <1>1, <1>3, <2>1, <2>2, <2>3, <2>4 DEF Flattened
<1>4. CASE s[n] # Blank
  <2> DEFINE u == Append(t, s[n])
  <2>1. /\ u \in Seq(FindingSet) /\ Len(u) = Len(t) + 1 /\ u[Len(t) + 1] = s[n]
        /\ \A k \in 1 .. Len(t) : u[k] = t[k]
    BY <1>1, AppendProperties
  <2> HIDE DEF u
  <2>2. 1 .. Len(u) = (1 .. Len(t)) \cup {Len(t) + 1} /\ Len(u) <= n
    BY <1>1, <2>1
  <2>3. \A i \in 1 .. n : s[i] # Blank => \E k \in 1 .. Len(u) : u[k] = s[i]
    <3>1. \A i \in 1 .. n - 1 : s[i] # Blank => \E k \in 1 .. Len(t) : t[k] = s[i]
      BY DEF Flattened
    <3> QED BY <1>2, <2>1, <2>2, <3>1
  <2>4. \A k \in 1 .. Len(u) : \E i \in 1 .. n : s[i] # Blank /\ u[k] = s[i]
    <3>1. \A k \in 1 .. Len(t) : \E i \in 1 .. n - 1 : s[i] # Blank /\ t[k] = s[i]
      BY DEF Flattened
    <3> QED BY <1>1, <1>2, <1>4, <2>1, <2>2, <3>1
  <2>5. ASSUME NEW k \in 1 .. Len(u), NEW l \in 1 .. Len(u), k < l
        PROVE  \E i, j \in 1 .. n : i < j /\ u[k] = s[i] /\ u[l] = s[j]
    <3>1. k \in 1 .. Len(t)
      BY <1>1, <2>1, <2>5
    <3>2. CASE l \in 1 .. Len(t)
      <4>1. \E i, j \in 1 .. n - 1 : i < j /\ t[k] = s[i] /\ t[l] = s[j]
        BY <2>5, <3>1, <3>2 DEF Flattened
      <4> QED BY <1>2, <2>1, <3>1, <3>2, <4>1
    <3>3. CASE l = Len(t) + 1
      <4>1. PICK i \in 1 .. n - 1 : t[k] = s[i]
        BY <3>1 DEF Flattened
      <4>2. i < n /\ i \in 1 .. n
        BY <1>1, <4>1
      <4> QED BY <1>1, <2>1, <3>1, <3>3, <4>1, <4>2
    <3> QED BY <2>2, <3>2, <3>3
  <2>6. Flattened(s, n, u)
    BY <2>1, <2>2, <2>3, <2>4, <2>5 DEF Flattened
  <2> QED BY <1>4, <2>6 DEF u
<1> QED BY <1>3, <1>4

\* What Vec::flatten keeps.
LEMMA PresentFacts ==
    ASSUME NEW s \in Seq(FindingSet)
    PROVE  Flattened(s, Len(s), Present(s))
<1>1. PICK f : /\ Present(s) = f[Len(s)] /\ f[0] = <<>>
               /\ \A n \in 1 .. Len(s) : f[n] = IF s[n] = Blank THEN f[n - 1] ELSE Append(f[n - 1], s[n])
  BY KeptSteps
<1> DEFINE S == {n \in 0 .. Len(s) : ~Flattened(s, n, f[n])}
<1>2. Len(s) \in Nat
  BY LenProperties
<1>3. ASSUME S # {} PROVE FALSE
  <2>1. PICK m \in S : \A j \in S : m <= j
    <3>1. S \in SUBSET Nat
      BY <1>2
    <3> HIDE DEF S
    <3> QED BY <1>3, <3>1, Smallest
  <2>2. m # 0
    <3>1. f[0] \in Seq(FindingSet) /\ Len(f[0]) = 0 /\ 1 .. 0 = {}
      BY <1>1, EmptySeq
    <3>2. Flattened(s, 0, f[0])
      BY <3>1 DEF Flattened
    <3> QED BY <2>1, <3>2
  <2>3. m \in 1 .. Len(s) /\ m - 1 \in 0 .. Len(s) /\ m - 1 \notin S
    BY <1>2, <2>1, <2>2
  <2>4. Flattened(s, m - 1, f[m - 1])
    BY <2>3
  <2>5. Flattened(s, m, f[m])
    BY <1>1, <2>3, <2>4, FlattenedStep
  <2> QED BY <2>1, <2>5
<1>4. Len(s) \in 0 .. Len(s)
  BY <1>2
<1>5. Flattened(s, Len(s), f[Len(s)])
  BY <1>3, <1>4
<1> QED BY <1>1, <1>5

\* The places whose check panicked.
PlacesPanicked == {i \in DOMAIN entry.ids : ended[i] = "panic"}

\* What is at a place: the finding of its check, that of an unknown id, or
\* nothing, where a panic may stand in until the check ends.
Expected(i) ==
  \/ ended[i] \in {"Ok", "Error"} /\ slots[i] = Finding(entry.ids[i], ended[i], i)
  \/ /\ entry.ids[i] \notin Registry /\ ended[i] = "none" /\ entry.kind # "run_all"
     /\ slots[i] = Finding(entry.ids[i], "Error", i)
  \/ /\ entry.ids[i] \in Registry /\ ended[i] \in {"none", "panic"}
     /\ \/ slots[i] = Blank
        \/ entry.kind # "run_all" /\ \E name, j : j \in PlacesPanicked /\ slots[i] = Finding(name, "Error", j)

\* The command refused the id it was given.
TurnedAway ==
  /\ entry = [kind |-> "command", ids |-> <<Unknown>>] /\ slots = <<Blank>>
  /\ report = from_findings(<<UsageError>>)

DoctorInv ==
  /\ entry.ids \in Seq(CheckIds) /\ slots \in Seq(FindingSet) /\ Len(slots) = Len(entry.ids)
  /\ ended \in [DOMAIN entry.ids -> {"none", "Ok", "Error", "panic"}]
  /\ running = {i \in DOMAIN entry.ids : entry.ids[i] \in Registry /\ ended[i] = "none"}
  /\ panics \in Seq(Nat) /\ \A n \in DOMAIN panics : panics[n] \in PlacesPanicked
  /\ entry.kind = "none" => entry.ids = <<>> /\ panics = <<>> /\ ~report.done
  /\ entry.kind = "run_all" => entry.ids = Checks /\ Len(panics) = Cardinality(PlacesPanicked)
  /\ TurnedAway \/ \A i \in DOMAIN entry.ids : Expected(i)
  /\ report.done => running = {}
  /\ ~report.done => report.findings = <<>>
  /\ FindingsSurvive

\* What follows of the types.
LEMMA DoctorTypes ==
    ASSUME DoctorInv
    PROVE  /\ DOMAIN entry.ids = 1 .. Len(entry.ids) /\ Len(entry.ids) \in Nat
           /\ DOMAIN slots = DOMAIN entry.ids /\ DOMAIN ended = DOMAIN entry.ids
           /\ DOMAIN entry.ids \subseteq Nat \ {0}
           /\ \A i \in DOMAIN entry.ids :
                entry.ids[i] \in CheckIds /\ ended[i] \in {"none", "Ok", "Error", "panic"}
           /\ running \subseteq DOMAIN entry.ids /\ IsFiniteSet(PlacesPanicked)
<1>1. /\ entry.ids \in Seq(CheckIds) /\ slots \in Seq(FindingSet) /\ Len(slots) = Len(entry.ids)
      /\ ended \in [DOMAIN entry.ids -> {"none", "Ok", "Error", "panic"}]
      /\ running = {i \in DOMAIN entry.ids : entry.ids[i] \in Registry /\ ended[i] = "none"}
  BY DEF DoctorInv
<1>2. DOMAIN entry.ids = 1 .. Len(entry.ids) /\ Len(entry.ids) \in Nat /\ DOMAIN slots = 1 .. Len(slots)
  BY <1>1, LenProperties
<1>3. \A i \in DOMAIN entry.ids : entry.ids[i] \in CheckIds
  BY <1>1, <1>2, ElementOfSeq
<1>4. IsFiniteSet(PlacesPanicked)
  <2>1. IsFiniteSet(1 .. Len(entry.ids)) /\ PlacesPanicked \subseteq 1 .. Len(entry.ids)
    BY <1>2, FS_Interval DEF PlacesPanicked
  <2> QED BY <2>1, FS_Subset
<1>5. \A i \in 1 .. Len(entry.ids) : i \in Nat \ {0}
  BY <1>2
<1> QED BY <1>1, <1>2, <1>3, <1>4, <1>5

\* A finding is not an empty place.
LEMMA FindingFacts ==
    \A check, severity, about :
      /\ Finding(check, severity, about).about = about
      /\ Finding(check, severity, about).severity = severity
      /\ Finding(check, severity, about).check = check
      /\ severity # "none" => Finding(check, severity, about) # Blank
      /\ check \in CheckIds /\ severity \in Severities /\ about \in Nat =>
           Finding(check, severity, about) \in FindingSet
BY DEF Finding, Blank, FindingSet, Severities

LEMMA BlankIsFinding == Blank \in FindingSet /\ UsageError \in FindingSet
BY DEF Blank, UsageError, Finding, FindingSet, CheckIds, Severities

\* Nothing is asked for yet.
LEMMA DoctorStarts ==
    ASSUME DoctorInit
    PROVE  DoctorInv
<1>1. /\ entry.kind = "none" /\ entry.ids = <<>> /\ running = {} /\ ended = <<>> /\ slots = <<>>
      /\ panics = <<>> /\ report = NoReport
  BY DEF DoctorInit
<1>2. report.done = FALSE /\ report.findings = <<>>
  BY <1>1 DEF NoReport, from_findings
<1>3. DOMAIN entry.ids = {} /\ Len(entry.ids) = 0 /\ Len(slots) = 0 /\ Len(report.findings) = 0
      /\ DOMAIN panics = {}
  BY <1>1, <1>2
<1>4. /\ entry.ids \in Seq(CheckIds) /\ slots \in Seq(FindingSet) /\ panics \in Seq(Nat)
  BY <1>1, EmptySeq
<1>5. ended \in [DOMAIN entry.ids -> {"none", "Ok", "Error", "panic"}]
  BY <1>1, <1>3
<1>6. FindingsSurvive
  BY <1>2, <1>3 DEF FindingsSurvive, NormalFindingsSurvive, RunAllAttributesPanics
<1> QED BY <1>1, <1>2, <1>3, <1>4, <1>5, <1>6 DEF DoctorInv

\* What an entry asks for: the ids in their places, or the usage error.
PlacesFilled(kind, ids, filled) ==
  /\ UNCHANGED report
  /\ \A i \in DOMAIN ids :
       \/ ids[i] \in Registry /\ filled[i] = Blank
       \/ kind # "run_all" /\ ids[i] \notin Registry /\ filled[i] = Finding(ids[i], "Error", i)
UsageIsWrong(kind, ids, filled) ==
  /\ kind = "command" /\ ids = <<Unknown>> /\ filled = <<Blank>>
  /\ report' = from_findings(<<UsageError>>)

\* An entry that asks for the ids of a sequence, with the places filled.
LEMMA AskKeeps ==
    ASSUME DoctorInv, NEW kind \in {"run_all", "run_filtered", "command"}, NEW ids \in Seq(CheckIds),
           NEW filled \in Seq(FindingSet), Len(filled) = Len(ids), Ask(kind, ids, filled),
           kind = "run_all" => ids = Checks,
           PlacesFilled(kind, ids, filled) \/ UsageIsWrong(kind, ids, filled)
    PROVE  DoctorInv'
<1>1. /\ entry.kind = "none" /\ entry'.kind = kind /\ entry'.ids = ids /\ slots' = filled
      /\ entry' = [kind |-> kind, ids |-> ids]
      /\ running' = {i \in DOMAIN ids : ids[i] \in Registry} /\ ended' = [i \in DOMAIN ids |-> "none"]
      /\ panics' = panics
  BY DEF Ask
<1>2. panics = <<>> /\ ~report.done /\ report.findings = <<>>
  BY <1>1 DEF DoctorInv
<1>3. \A i \in DOMAIN ids : ended'[i] = "none"
  BY <1>1
<1>4. PlacesPanicked' = {}
  BY <1>1, <1>3 DEF PlacesPanicked
<1>5. panics' \in Seq(Nat) /\ DOMAIN panics' = {} /\ Len(panics') = Cardinality(PlacesPanicked')
  BY <1>1, <1>2, <1>4, EmptySeq, FS_EmptySet
<1>6. /\ ended' \in [DOMAIN entry'.ids -> {"none", "Ok", "Error", "panic"}]
      /\ running' = {i \in DOMAIN entry'.ids : entry'.ids[i] \in Registry /\ ended'[i] = "none"}
  BY <1>1, <1>3
<1>7. CASE PlacesFilled(kind, ids, filled)
  <2>0. /\ report' = report
        /\ \A i \in DOMAIN ids :
             \/ ids[i] \in Registry /\ filled[i] = Blank
             \/ kind # "run_all" /\ ids[i] \notin Registry /\ filled[i] = Finding(ids[i], "Error", i)
    BY <1>7 DEF PlacesFilled
  <2>1. \A i \in DOMAIN entry'.ids : Expected(i)'
    BY <1>1, <1>3, <2>0 DEF Expected
  <2>2. ~report'.done /\ report'.findings = <<>> /\ Len(report'.findings) = 0 /\ Len(filled) \in Nat
    BY <1>2, <2>0, LenProperties
  <2>3. FindingsSurvive'
    BY <1>1, <2>2 DEF FindingsSurvive, NormalFindingsSurvive, RunAllAttributesPanics
  <2> QED BY <1>1, <1>5, <1>6, <2>1, <2>2, <2>3 DEF DoctorInv
<1>8. CASE UsageIsWrong(kind, ids, filled)
  <2>0. /\ kind = "command" /\ ids = <<Unknown>> /\ filled = <<Blank>>
        /\ report' = from_findings(<<UsageError>>)
    BY <1>8 DEF UsageIsWrong
  <2>1. TurnedAway'
    BY <1>1, <2>0 DEF TurnedAway
  <2>2. running' = {}
    <3>1. \A i \in DOMAIN ids : ids[i] = Unknown
      BY <2>0
    <3> QED BY <1>1, <3>1, DoctorAssumption
  <2>3. report'.done = TRUE /\ report'.findings = <<UsageError>>
    BY <2>0 DEF from_findings
  <2>4. FindingsSurvive'
    <3>1. Len(report'.findings) = 1 /\ Len(slots') = 1
      BY <1>1, <2>0, <2>3
    <3>2. NormalFindingsSurvive'
      BY <2>3 DEF NormalFindingsSurvive
    <3>3. RunAllAttributesPanics'
      BY <1>1, <2>0 DEF RunAllAttributesPanics
    <3> QED BY <3>1, <3>2, <3>3 DEF FindingsSurvive
  <2> QED BY <1>1, <1>5, <1>6, <2>0, <2>1, <2>2, <2>3, <2>4 DEF DoctorInv
<1> QED BY <1>7, <1>8

\* The three entries.
LEMMA EntriesKeep ==
    ASSUME DoctorInv, run_all \/ run_filtered \/ create_doctor_command
    PROVE  DoctorInv'
<1>1. /\ Checks \in Seq(CheckIds) /\ DOMAIN Checks = 1 .. Len(Checks) /\ Len(Checks) \in Nat
      /\ \A i \in DOMAIN Checks : Checks[i] \in Registry
  <2>1. Len(Checks) \in Nat /\ DOMAIN Checks = 1 .. Len(Checks) /\ \A i \in 1 .. Len(Checks) : Checks[i] \in Registry
    BY DoctorAssumption, LenProperties, ElementOfSeq
  <2>2. \A i \in 1 .. Len(Checks) : Checks[i] \in CheckIds
    BY <2>1 DEF CheckIds
  <2>3. Checks \in Seq(CheckIds)
    BY <2>1, <2>2, DoctorAssumption, SeqDef
  <2> QED BY <2>1, <2>3
<1>2. ASSUME NEW ids \in Seq(CheckIds)
      PROVE  /\ Blanks(ids) \in Seq(FindingSet) /\ Len(Blanks(ids)) = Len(ids)
             /\ \A i \in DOMAIN ids : Blanks(ids)[i] = Blank
  <2>1. Len(ids) \in Nat /\ DOMAIN ids = 1 .. Len(ids)
    BY LenProperties
  <2>2. Blanks(ids) = [i \in 1 .. Len(ids) |-> Blank]
    BY <2>1 DEF Blanks
  <2> QED BY <2>1, <2>2, BlankIsFinding
<1>3. CASE run_all
  <2>1. Ask("run_all", Checks, Blanks(Checks)) /\ UNCHANGED report
    BY <1>3 DEF run_all
  <2>2. PlacesFilled("run_all", Checks, Blanks(Checks))
    BY <1>1, <1>2, <2>1 DEF PlacesFilled
  <2> QED BY <1>1, <1>2, <2>1, <2>2, AskKeeps
<1>4. CASE run_filtered
  <2> DEFINE fill(ids) == [i \in DOMAIN ids |-> IF ids[i] \in Registry THEN Blank ELSE Finding(ids[i], "Error", i)]
  <2>1. PICK ids \in {Checks} \cup UNION {[1 .. n -> Registry \cup {Unknown}] : n \in 1 .. 2} :
          Ask("run_filtered", ids, fill(ids)) /\ UNCHANGED report
    BY <1>4 DEF run_filtered
  <2>2. ids \in Seq(CheckIds)
    <3>1. CASE ids = Checks
      BY <1>1, <3>1
    <3>2. CASE ids \in UNION {[1 .. n -> Registry \cup {Unknown}] : n \in 1 .. 2}
      <4>1. PICK n \in 1 .. 2 : ids \in [1 .. n -> Registry \cup {Unknown}]
        BY <3>2
      <4>2. n \in Nat
        OBVIOUS
      <4>3. ids \in [1 .. n -> CheckIds]
        <5>1. \A c \in Registry \cup {Unknown} : c \in CheckIds
          BY DEF CheckIds
        <5> HIDE DEF fill
        <5> QED BY <4>1, <5>1
      <4> QED BY <4>2, <4>3, SeqDef
    <3> QED BY <2>1, <3>1, <3>2
  <2>3. Len(ids) \in Nat /\ DOMAIN ids = 1 .. Len(ids) /\ \A i \in 1 .. Len(ids) : ids[i] \in CheckIds
    BY <2>2, LenProperties, ElementOfSeq
  <2>4. \A i \in 1 .. Len(ids) : fill(ids)[i] \in FindingSet
    <3> TAKE i \in 1 .. Len(ids)
    <3>1. Finding(ids[i], "Error", i) \in FindingSet
      <4>1. i \in Nat
        BY <2>3
      <4> QED BY <2>3, <4>1, FindingFacts DEF Severities
    <3>2. fill(ids)[i] = Blank \/ fill(ids)[i] = Finding(ids[i], "Error", i)
      BY <2>3
    <3> HIDE DEF fill
    <3> QED BY <3>1, <3>2, BlankIsFinding
  <2>5. fill(ids) \in Seq(FindingSet) /\ Len(fill(ids)) = Len(ids)
    <3>1. fill(ids) \in [1 .. Len(ids) -> FindingSet]
      BY <2>3, <2>4
    <3> HIDE DEF fill
    <3> QED BY <2>3, <3>1, SeqDef, LenProperties
  <2>6. \A i \in DOMAIN ids : \/ ids[i] \in Registry /\ fill(ids)[i] = Blank
                              \/ ids[i] \notin Registry /\ fill(ids)[i] = Finding(ids[i], "Error", i)
    OBVIOUS
  <2> HIDE DEF fill
  <2>7. PlacesFilled("run_filtered", ids, fill(ids))
    BY <2>1, <2>6 DEF PlacesFilled
  <2> QED BY <2>1, <2>2, <2>5, <2>7, AskKeeps
<1>5. CASE create_doctor_command
  <2>1. CASE \E ids \in {Checks} \cup {<<id>> : id \in Registry} :
               Ask("command", ids, Blanks(ids)) /\ UNCHANGED report
    <3>1. PICK ids \in {Checks} \cup {<<id>> : id \in Registry} :
            Ask("command", ids, Blanks(ids)) /\ UNCHANGED report
      BY <2>1
    <3>2. ids \in Seq(CheckIds) /\ \A i \in DOMAIN ids : ids[i] \in Registry
      <4>1. CASE ids = Checks
        BY <1>1, <4>1
      <4>2. CASE ids \in {<<id>> : id \in Registry}
        <5>1. PICK id \in Registry : ids = <<id>>
          BY <4>2
        <5>2. id \in CheckIds
          BY DEF CheckIds
        <5> QED BY <5>1, <5>2
      <4> QED BY <3>1, <4>1, <4>2
    <3>3. PlacesFilled("command", ids, Blanks(ids))
      BY <1>2, <3>1, <3>2 DEF PlacesFilled
    <3> QED BY <1>2, <3>1, <3>2, <3>3, AskKeeps
  <2>2. CASE Ask("command", <<Unknown>>, <<Blank>>) /\ report' = from_findings(<<UsageError>>)
    <3>1. <<Unknown>> \in Seq(CheckIds) /\ <<Blank>> \in Seq(FindingSet) /\ Len(<<Blank>>) = Len(<<Unknown>>)
      BY BlankIsFinding DEF CheckIds
    <3>2. UsageIsWrong("command", <<Unknown>>, <<Blank>>)
      BY <2>2 DEF UsageIsWrong
    <3> QED BY <2>2, <3>1, <3>2, AskKeeps
  <2> QED BY <1>5, <2>1, <2>2 DEF create_doctor_command
<1> QED BY <1>3, <1>4, <1>5

\* A place before the join of i, and the findings so far.
LEMMA BeforeAJoin ==
    ASSUME DoctorInv, NEW i \in running
    PROVE  /\ i \in DOMAIN entry.ids /\ entry.ids[i] \in Registry /\ ended[i] = "none"
           /\ i \in Nat /\ i \notin PlacesPanicked /\ ~report.done /\ report.findings = <<>>
           /\ entry.kind # "none" /\ \A j \in DOMAIN entry.ids : Expected(j)
<1>1. /\ i \in DOMAIN entry.ids /\ entry.ids[i] \in Registry /\ ended[i] = "none" /\ i \in Nat
  <2>1. running = {j \in DOMAIN entry.ids : entry.ids[j] \in Registry /\ ended[j] = "none"}
    BY DEF DoctorInv
  <2> QED BY <2>1, DoctorTypes
<1>2. ~report.done /\ report.findings = <<>>
  BY DEF DoctorInv
<1>3. ~TurnedAway
  <2>1. from_findings(<<UsageError>>).done = TRUE
    BY DEF from_findings
  <2> QED BY <1>2, <2>1 DEF TurnedAway
<1>4. \A j \in DOMAIN entry.ids : Expected(j)
  BY <1>3 DEF DoctorInv
<1>5. i \notin PlacesPanicked
  BY <1>1 DEF PlacesPanicked
<1>6. entry.kind # "none"
  <2>1. entry.kind = "none" => entry.ids = <<>>
    BY DEF DoctorInv
  <2>2. entry.ids # <<>>
    BY <1>1
  <2> QED BY <2>1, <2>2
<1> QED BY <1>1, <1>2, <1>4, <1>5, <1>6

\* A check ends: what its place, and the places of the others, become.
LEMMA JoinKeeps ==
    ASSUME DoctorInv, NEW i \in running, NEW how \in {"Ok", "Error", "panic"},
           running' = running \ {i}, ended' = [ended EXCEPT ![i] = how],
           UNCHANGED <<entry, report>>,
           slots' \in Seq(FindingSet), Len(slots') = Len(slots),
           panics' \in Seq(Nat), \A n \in DOMAIN panics' : panics'[n] \in PlacesPanicked',
           entry.kind = "run_all" => Len(panics') = Cardinality(PlacesPanicked'),
           \A j \in DOMAIN entry.ids : Expected(j)'
    PROVE  DoctorInv'
<1>1. /\ i \in DOMAIN entry.ids /\ entry.ids[i] \in Registry /\ ended[i] = "none"
      /\ ~report.done /\ report.findings = <<>> /\ entry.kind # "none"
  BY BeforeAJoin
<1>2. entry' = entry /\ report' = report
  OBVIOUS
<1>3. ended' \in [DOMAIN entry.ids -> {"none", "Ok", "Error", "panic"}]
  <2>1. ended \in [DOMAIN entry.ids -> {"none", "Ok", "Error", "panic"}]
    BY DEF DoctorInv
  <2> QED BY <1>1, <2>1
<1>4. running' = {j \in DOMAIN entry.ids : entry.ids[j] \in Registry /\ ended'[j] = "none"}
  <2>1. /\ ended \in [DOMAIN entry.ids -> {"none", "Ok", "Error", "panic"}]
        /\ running = {j \in DOMAIN entry.ids : entry.ids[j] \in Registry /\ ended[j] = "none"}
    BY DEF DoctorInv
  <2>2. \A j \in DOMAIN entry.ids : ended'[j] = IF j = i THEN how ELSE ended[j]
    BY <2>1
  <2>3. ASSUME NEW j
        PROVE  j \in running' <=> j \in DOMAIN entry.ids /\ entry.ids[j] \in Registry /\ ended'[j] = "none"
    BY <1>1, <2>1, <2>2
  <2> QED BY <2>3
<1>5. entry.ids \in Seq(CheckIds) /\ Len(slots) = Len(entry.ids) /\ (entry.kind = "run_all" => entry.ids = Checks)
  BY DEF DoctorInv
<1>6. FindingsSurvive'
  <2>1. Len(slots') \in Nat
    BY <1>5, LenProperties
  <2>2. ~report'.done /\ report'.findings = <<>>
    BY <1>1, <1>2
  <2>3. Len(report'.findings) = 0
    BY <2>2
  <2>4. NormalFindingsSurvive'
    BY <2>2 DEF NormalFindingsSurvive
  <2>5. RunAllAttributesPanics'
    BY <2>2 DEF RunAllAttributesPanics
  <2> QED BY <2>1, <2>3, <2>4, <2>5 DEF FindingsSurvive
<1> QED BY <1>1, <1>2, <1>3, <1>4, <1>5, <1>6 DEF DoctorInv

\* A finding never looks like an empty place.
LEMMA BlankAwaits ==
    ASSUME DoctorInv, NEW i \in DOMAIN entry.ids, Expected(i), entry.ids[i] \in Registry
    PROVE  /\ slots[i] = Blank => ended[i] \in {"none", "panic"}
           /\ ended[i] \in {"none", "panic"} =>
                \/ slots[i] = Blank
                \/ entry.kind # "run_all" /\ \E name, j : j \in PlacesPanicked /\ slots[i] = Finding(name, "Error", j)
<1>1. Finding(entry.ids[i], "Ok", i) # Blank /\ Finding(entry.ids[i], "Error", i) # Blank
  BY FindingFacts
<1> QED BY <1>1 DEF Expected

\* A result comes.
LEMMA ResultKeeps ==
    ASSUME DoctorInv, NEW i \in running, NEW severity \in {"Ok", "Error"},
           running' = running \ {i}, Joined(i, severity), ended' = [ended EXCEPT ![i] = severity],
           UNCHANGED <<panics, entry, report>>
    PROVE  DoctorInv'
<1>1. /\ i \in DOMAIN entry.ids /\ entry.ids[i] \in Registry /\ ended[i] = "none"
      /\ i \in Nat /\ i \notin PlacesPanicked /\ \A j \in DOMAIN entry.ids : Expected(j)
  BY BeforeAJoin
<1>2. /\ DOMAIN slots = DOMAIN entry.ids /\ DOMAIN ended = DOMAIN entry.ids /\ entry.ids[i] \in CheckIds
      /\ slots \in Seq(FindingSet) /\ panics \in Seq(Nat) /\ \A n \in DOMAIN panics : panics[n] \in PlacesPanicked
      /\ entry.kind = "run_all" => Len(panics) = Cardinality(PlacesPanicked)
  BY <1>1, DoctorTypes DEF DoctorInv
<1>3. /\ entry' = entry /\ panics' = panics
      /\ \A j \in DOMAIN entry.ids :
           /\ slots'[j] = IF j = i THEN Finding(entry.ids[i], severity, i) ELSE slots[j]
           /\ ended'[j] = IF j = i THEN severity ELSE ended[j]
  BY <1>2 DEF Joined
<1>4. PlacesPanicked' = PlacesPanicked
  <2>1. \A j \in DOMAIN entry.ids : ended'[j] = "panic" <=> ended[j] = "panic"
    BY <1>1, <1>3
  <2> QED BY <1>3, <2>1 DEF PlacesPanicked
<1>5. slots' \in Seq(FindingSet) /\ Len(slots') = Len(slots)
  <2>1. Finding(entry.ids[i], severity, i) \in FindingSet
    BY <1>1, <1>2, FindingFacts DEF Severities
  <2>2. slots' = [slots EXCEPT ![i] = Finding(entry.ids[i], severity, i)]
    BY DEF Joined
  <2> QED BY <1>1, <1>2, <2>1, <2>2, ExceptSeq
<1>6. \A j \in DOMAIN entry.ids : Expected(j)'
  <2> TAKE j \in DOMAIN entry.ids
  <2>1. CASE j = i
    BY <1>1, <1>3, <2>1 DEF Expected
  <2>2. CASE j # i
    <3>1. slots'[j] = slots[j] /\ ended'[j] = ended[j]
      BY <1>3, <2>2
    <3>2. Expected(j)
      BY <1>1
    <3> QED BY <1>3, <1>4, <3>1, <3>2 DEF Expected
  <2> QED BY <2>1, <2>2
<1> QED BY <1>2, <1>3, <1>4, <1>5, <1>6, JoinKeeps

\* A panic comes.
LEMMA PanicKeeps ==
    ASSUME DoctorInv, NEW i \in running,
           running' = running \ {i}, PanicJoined(i), ended' = [ended EXCEPT ![i] = "panic"],
           UNCHANGED <<entry, report>>
    PROVE  DoctorInv'
<1>1. /\ i \in DOMAIN entry.ids /\ entry.ids[i] \in Registry /\ ended[i] = "none"
      /\ i \in Nat /\ i \notin PlacesPanicked /\ \A j \in DOMAIN entry.ids : Expected(j)
  BY BeforeAJoin
<1>2. /\ DOMAIN slots = DOMAIN entry.ids /\ DOMAIN ended = DOMAIN entry.ids
      /\ \A j \in DOMAIN entry.ids : entry.ids[j] \in CheckIds
      /\ slots \in Seq(FindingSet) /\ panics \in Seq(Nat) /\ \A n \in DOMAIN panics : panics[n] \in PlacesPanicked
      /\ entry.kind = "run_all" => Len(panics) = Cardinality(PlacesPanicked)
      /\ IsFiniteSet(PlacesPanicked)
  BY <1>1, DoctorTypes DEF DoctorInv
<1>3. /\ entry' = entry
      /\ \A j \in DOMAIN entry.ids : ended'[j] = IF j = i THEN "panic" ELSE ended[j]
  BY <1>2
<1>4. PlacesPanicked' = PlacesPanicked \cup {i}
  <2>1. \A j \in DOMAIN entry.ids : ended'[j] = "panic" <=> ended[j] = "panic" \/ j = i
    BY <1>3
  <2> QED BY <1>1, <1>3, <2>1 DEF PlacesPanicked
<1>5. Cardinality(PlacesPanicked') = Cardinality(PlacesPanicked) + 1
  BY <1>1, <1>2, <1>4, FS_AddElement
<1>6. CASE entry.kind = "run_all"
  <2>1. panics' = Append(panics, i) /\ slots' = slots
    BY <1>6 DEF PanicJoined
  <2>2. /\ panics' \in Seq(Nat) /\ Len(panics') = Len(panics) + 1
        /\ \A n \in DOMAIN panics' : panics'[n] \in PlacesPanicked'
    <3>1. /\ panics' \in Seq(Nat) /\ Len(panics') = Len(panics) + 1 /\ Len(panics) \in Nat
          /\ \A n \in 1 .. Len(panics) : panics'[n] = panics[n]
          /\ panics'[Len(panics) + 1] = i
      BY <1>1, <1>2, <2>1, AppendProperties, LenProperties
    <3>2. DOMAIN panics' = (1 .. Len(panics)) \cup {Len(panics) + 1} /\ DOMAIN panics = 1 .. Len(panics)
      BY <1>2, <3>1, LenProperties
    <3> QED BY <1>2, <1>4, <3>1, <3>2
  <2>3. \A j \in DOMAIN entry.ids : Expected(j)'
    <3> TAKE j \in DOMAIN entry.ids
    <3>1. CASE j = i
      <4>1. slots[j] = Blank
        BY <1>1, <1>6, <3>1, BlankAwaits
      <4> QED BY <1>1, <1>3, <2>1, <3>1, <4>1 DEF Expected
    <3>2. CASE j # i
      <4>1. slots'[j] = slots[j] /\ ended'[j] = ended[j] /\ entry' = entry
        BY <1>3, <2>1, <3>2
      <4>2. Expected(j)
        BY <1>1
      <4> QED BY <1>6, <4>1, <4>2 DEF Expected
    <3> QED BY <3>1, <3>2
  <2> QED BY <1>2, <1>5, <2>1, <2>2, <2>3, JoinKeeps
<1>7. CASE entry.kind # "run_all"
  <2> DEFINE name(j) == IF entry.kind = "command" THEN "unknown" ELSE entry.ids[j]
  <2>1. /\ panics' = panics
        /\ slots' = [j \in DOMAIN slots |-> IF j \in FirstEmpty THEN Finding(name(j), "Error", i) ELSE slots[j]]
    BY <1>7 DEF PanicJoined, PanicShown
  <2>2. \A j \in DOMAIN entry.ids : Finding(name(j), "Error", i) \in FindingSet
    <3> TAKE j \in DOMAIN entry.ids
    <3>1. name(j) \in CheckIds
      BY <1>2 DEF CheckIds
    <3> HIDE DEF name
    <3> QED BY <1>1, <3>1, FindingFacts DEF Severities
  <2>3. /\ \A j \in DOMAIN entry.ids :
             slots'[j] = IF j \in FirstEmpty THEN Finding(name(j), "Error", i) ELSE slots[j]
        /\ DOMAIN slots' = DOMAIN slots
    BY <1>2, <2>1
  <2>4. \A j \in FirstEmpty : j \in DOMAIN entry.ids /\ slots[j] = Blank /\ entry.ids[j] \in Registry
    BY <1>2 DEF FirstEmpty
  <2> HIDE DEF name
  <2>5. slots' \in Seq(FindingSet) /\ Len(slots') = Len(slots)
    <3>1. Len(slots) \in Nat /\ DOMAIN slots = 1 .. Len(slots) /\ \A j \in 1 .. Len(slots) : slots[j] \in FindingSet
      BY <1>2, LenProperties, ElementOfSeq
    <3>2. \A j \in 1 .. Len(slots) : slots'[j] \in FindingSet
      BY <1>2, <2>2, <2>3, <3>1
    <3>3. slots' = [j \in 1 .. Len(slots) |-> slots'[j]]
      BY <2>1, <2>3, <3>1
    <3>4. slots' \in [1 .. Len(slots) -> FindingSet]
      BY <3>2, <3>3
    <3> QED BY <3>1, <3>4, SeqDef, LenProperties
  <2>6. \A j \in DOMAIN entry.ids : Expected(j)'
    <3> TAKE j \in DOMAIN entry.ids
    <3>0. Expected(j)
      BY <1>1
    <3>1. CASE j \in FirstEmpty
      <4>1. /\ ended[j] \in {"none", "panic"} /\ entry.ids[j] \in Registry
            /\ slots'[j] = Finding(name(j), "Error", i)
        BY <2>3, <2>4, <3>0, <3>1, BlankAwaits
      <4>2. ended'[j] \in {"none", "panic"} /\ i \in PlacesPanicked' /\ entry'.kind # "run_all" /\ entry'.ids[j] \in Registry
        BY <1>3, <1>4, <1>7, <4>1
      <4> QED BY <4>1, <4>2 DEF Expected
    <3>2. CASE j \notin FirstEmpty /\ j = i
      <4>1. \/ slots[j] = Blank
            \/ \E nm, k : k \in PlacesPanicked /\ slots[j] = Finding(nm, "Error", k)
        BY <1>1, <3>2, BlankAwaits
      <4>2. \/ slots'[j] = Blank
            \/ \E nm, k : k \in PlacesPanicked' /\ slots'[j] = Finding(nm, "Error", k)
        BY <1>4, <2>3, <3>2, <4>1
      <4>3. ended'[j] = "panic" /\ entry'.kind # "run_all" /\ entry'.ids[j] \in Registry
        BY <1>1, <1>3, <1>7, <3>2
      <4> QED BY <4>2, <4>3 DEF Expected
    <3>3. CASE j \notin FirstEmpty /\ j # i
      <4>1. slots'[j] = slots[j] /\ ended'[j] = ended[j]
        BY <1>3, <2>3, <3>3
      <4>2. \A k : k \in PlacesPanicked => k \in PlacesPanicked'
        BY <1>4
      <4> QED BY <1>3, <3>0, <4>1, <4>2 DEF Expected
    <3> QED BY <3>1, <3>2, <3>3
  <2>7. panics' \in Seq(Nat) /\ \A n \in DOMAIN panics' : panics'[n] \in PlacesPanicked'
    BY <1>2, <1>4, <2>1
  <2> QED BY <1>2, <1>7, <2>5, <2>6, <2>7, JoinKeeps
<1> QED BY <1>6, <1>7

LEMMA JoinNextKeeps ==
    ASSUME DoctorInv, join_next
    PROVE  DoctorInv'
<1>1. PICK i \in running :
        /\ running' = running \ {i}
        /\ \/ \E severity \in {"Ok", "Error"} :
                Joined(i, severity) /\ ended' = [ended EXCEPT ![i] = severity] /\ UNCHANGED panics
           \/ PanicJoined(i) /\ ended' = [ended EXCEPT ![i] = "panic"]
  BY DEF join_next
<1>2. UNCHANGED <<entry, report>>
  BY DEF join_next
<1>3. CASE PanicJoined(i) /\ ended' = [ended EXCEPT ![i] = "panic"]
  BY <1>1, <1>2, <1>3, PanicKeeps
<1>4. ASSUME NEW severity \in {"Ok", "Error"},
             Joined(i, severity), ended' = [ended EXCEPT ![i] = severity], UNCHANGED panics
      PROVE  DoctorInv'
  BY <1>1, <1>2, <1>4, ResultKeeps
<1> QED BY <1>1, <1>3, <1>4

\* When every check has been joined.
LEMMA BeforeTheReport ==
    ASSUME DoctorInv, Report
    PROVE  /\ \A i \in DOMAIN entry.ids :
                /\ i \in Nat /\ entry.ids[i] \in CheckIds /\ Expected(i)
                /\ entry.ids[i] \in Registry => ended[i] # "none"
           /\ UNCHANGED <<entry, running, ended, slots, panics>> /\ report'.done = TRUE
           /\ slots \in Seq(FindingSet) /\ Len(slots) \in Nat /\ Len(slots) = Len(entry.ids)
           /\ DOMAIN entry.ids = 1 .. Len(slots) /\ DOMAIN slots = 1 .. Len(slots)
           /\ entry.kind # "none"
           /\ report' = from_findings(IF entry.kind = "run_all" THEN Filled ELSE Present(slots))
<1>1. /\ entry.kind # "none" /\ running = {} /\ ~report.done
      /\ report' = from_findings(IF entry.kind = "run_all" THEN Filled ELSE Present(slots))
      /\ UNCHANGED <<entry, running, ended, slots, panics>>
  BY DEF Report
<1>2. ~TurnedAway
  <2>1. from_findings(<<UsageError>>).done = TRUE
    BY DEF from_findings
  <2> QED BY <1>1, <2>1 DEF TurnedAway
<1>3. \A i \in DOMAIN entry.ids : Expected(i)
  BY <1>2 DEF DoctorInv
<1>4. \A i \in DOMAIN entry.ids : entry.ids[i] \in Registry => ended[i] # "none"
  <2>1. running = {j \in DOMAIN entry.ids : entry.ids[j] \in Registry /\ ended[j] = "none"}
    BY DEF DoctorInv
  <2> QED BY <1>1, <2>1
<1>5. \A i \in DOMAIN entry.ids : i \in Nat /\ entry.ids[i] \in CheckIds
  BY DoctorTypes
<1>6. report'.done = TRUE
  BY <1>1 DEF from_findings
<1>7. slots \in Seq(FindingSet) /\ Len(slots) = Len(entry.ids)
  BY DEF DoctorInv
<1>8. Len(slots) \in Nat /\ DOMAIN slots = 1 .. Len(slots) /\ DOMAIN entry.ids = 1 .. Len(slots)
  BY <1>7, DoctorTypes, LenProperties
<1> QED BY <1>1, <1>3, <1>4, <1>5, <1>6, <1>7, <1>8

\* What remains is the findings themselves.
LEMMA ReportKeeps ==
    ASSUME DoctorInv, Report, FindingsSurvive'
    PROVE  DoctorInv'
<1>1. UNCHANGED <<entry, running, ended, slots, panics>> /\ report'.done = TRUE /\ entry.kind # "none"
      /\ \A i \in DOMAIN entry.ids : Expected(i)
  BY BeforeTheReport
<1>2. running = {}
  BY DEF Report
<1>3. PlacesPanicked' = PlacesPanicked
  BY <1>1 DEF PlacesPanicked
<1>4. \A i \in DOMAIN entry'.ids : Expected(i)'
  BY <1>1, <1>3 DEF Expected
<1> QED BY <1>1, <1>2, <1>3, <1>4 DEF DoctorInv

\* The findings of the checks that were joined, in a report that keeps the empty places out.
LEMMA PresentSurvives ==
    ASSUME DoctorInv, Report, entry.kind # "run_all"
    PROVE  FindingsSurvive'
<1> DEFINE p == Present(slots)
           of(i) == Finding(entry.ids[i], IF ended[i] = "none" THEN "Error" ELSE ended[i], i)
<1>1. /\ \A i \in 1 .. Len(slots) :
           /\ i \in Nat /\ entry.ids[i] \in CheckIds /\ Expected(i)
           /\ entry.ids[i] \in Registry => ended[i] # "none"
      /\ entry' = entry /\ ended' = ended /\ slots' = slots
      /\ slots \in Seq(FindingSet) /\ Len(slots) \in Nat /\ DOMAIN entry.ids = 1 .. Len(slots)
  BY BeforeTheReport
<1>2. report'.findings = p /\ entry'.kind # "run_all"
  <2>1. report' = from_findings(p) /\ entry' = entry
    BY BeforeTheReport
  <2> HIDE DEF p
  <2> QED BY <2>1 DEF from_findings
<1>3. Flattened(slots, Len(slots), p)
  BY <1>1, PresentFacts
<1> HIDE DEF p
<1>4. p \in Seq(FindingSet) /\ Len(p) \in Nat /\ DOMAIN p = 1 .. Len(p) /\ Len(p) <= Len(slots)
  BY <1>3, LenProperties DEF Flattened
<1> DEFINE own == {n \in DOMAIN p : ended[p[n].about] # "panic"}
\* A place with a finding: its own, or that of a panic.
<1>5. ASSUME NEW i \in 1 .. Len(slots), slots[i] # Blank
      PROVE  \/ ended[i] # "panic" /\ slots[i] = of(i) /\ slots[i].about = i
             \/ ended[slots[i].about] = "panic"
  <2>1. CASE ended[i] \in {"Ok", "Error"} /\ slots[i] = Finding(entry.ids[i], ended[i], i)
    <3>1. slots[i] = of(i) /\ ended[i] # "panic"
      BY <2>1
    <3>2. slots[i].about = i
      BY <2>1, FindingFacts
    <3> QED BY <3>1, <3>2
  <2>2. CASE entry.ids[i] \notin Registry /\ ended[i] = "none" /\ slots[i] = Finding(entry.ids[i], "Error", i)
    <3>1. slots[i] = of(i) /\ ended[i] # "panic"
      BY <2>2
    <3>2. slots[i].about = i
      BY <2>2, FindingFacts
    <3> QED BY <3>1, <3>2
  <2>3. CASE \E name, j : j \in PlacesPanicked /\ slots[i] = Finding(name, "Error", j)
    <3>1. PICK name, j : j \in PlacesPanicked /\ slots[i] = Finding(name, "Error", j)
      BY <2>3
    <3>2. slots[i].about = j
      BY <3>1, FindingFacts
    <3> QED BY <3>1, <3>2 DEF PlacesPanicked
  <2> HIDE DEF of
  <2> QED BY <1>1, <1>5, <2>1, <2>2, <2>3 DEF Expected
\* And a check that did not panic has one.
<1>6. ASSUME NEW i \in 1 .. Len(slots), ended[i] # "panic"
      PROVE  slots[i] # Blank /\ slots[i] = of(i) /\ slots[i].about = i
  <2>1. CASE ended[i] \in {"Ok", "Error"} /\ slots[i] = Finding(entry.ids[i], ended[i], i)
    <3>1. slots[i] = of(i)
      BY <2>1
    <3> QED BY <2>1, <3>1, FindingFacts
  <2>2. CASE entry.ids[i] \notin Registry /\ ended[i] = "none" /\ slots[i] = Finding(entry.ids[i], "Error", i)
    <3>1. slots[i] = of(i)
      BY <2>2
    <3> QED BY <2>2, <3>1, FindingFacts
  <2> HIDE DEF of
  <2> QED BY <1>1, <1>6, <2>1, <2>2 DEF Expected
<1> HIDE DEF of
<1>7. ASSUME NEW i \in 1 .. Len(slots), ended[i] # "panic"
      PROVE  \E n \in own : p[n] = of(i)
  <2>1. slots[i] # Blank /\ slots[i] = of(i) /\ slots[i].about = i
    BY <1>6, <1>7
  <2>2. PICK n \in 1 .. Len(p) : p[n] = slots[i]
    BY <1>3, <2>1 DEF Flattened
  <2>3. n \in own
    BY <1>4, <1>7, <2>1, <2>2
  <2> QED BY <2>1, <2>2, <2>3
<1>8. ASSUME NEW n \in own, NEW i \in 1 .. Len(slots), slots[i] # Blank, p[n] = slots[i]
      PROVE  p[n] = of(i) /\ p[n].about = i
  BY <1>5, <1>8
<1>9. ASSUME NEW n \in own
      PROVE  p[n] = of(p[n].about)
  <2>1. PICK i \in 1 .. Len(slots) : slots[i] # Blank /\ p[n] = slots[i]
    <3>1. n \in 1 .. Len(p)
      BY <1>4
    <3> QED BY <1>3, <3>1 DEF Flattened
  <2>2. p[n] = of(i) /\ p[n].about = i
    BY <1>8, <2>1
  <2> QED BY <2>2
<1>10. ASSUME NEW m \in own, NEW n \in own, m < n
       PROVE  p[m].about < p[n].about
  <2>1. m \in 1 .. Len(p) /\ n \in 1 .. Len(p)
    BY <1>4
  <2>2. PICK i, j \in 1 .. Len(slots) : i < j /\ p[m] = slots[i] /\ p[n] = slots[j]
    BY <1>3, <1>10, <2>1 DEF Flattened
  <2>3. \A k \in own : ended[p[k].about] # "panic"
    OBVIOUS
  <2>4. slots[i] # Blank /\ slots[j] # Blank
    <3>1. \A k \in 1 .. Len(p) : p[k] # Blank
      BY <1>3 DEF Flattened
    <3> QED BY <2>1, <2>2, <3>1
  <2>5. p[m].about = i /\ p[n].about = j
    BY <1>8, <2>2, <2>4
  <2> QED BY <2>2, <2>5
<1>11. NormalFindingsSurvive'
  <2>1. own = {n \in DOMAIN report'.findings : ended'[report'.findings[n].about] # "panic"}
    BY <1>1, <1>2
  <2>2. \A i \in DOMAIN entry'.ids : ended'[i] # "panic" => \E n \in own : report'.findings[n] = of(i)
    BY <1>1, <1>2, <1>7
  <2>3. \A n \in own : report'.findings[n] = of(report'.findings[n].about)
    BY <1>2, <1>9
  <2>4. \A m, n \in own : m < n => report'.findings[m].about < report'.findings[n].about
    BY <1>2, <1>10
  <2>5. \A i : of(i) = Finding(entry'.ids[i], IF ended'[i] = "none" THEN "Error" ELSE ended'[i], i)
    BY <1>1 DEF of
  <2> HIDE DEF own
  <2> QED BY <2>1, <2>2, <2>3, <2>4, <2>5 DEF NormalFindingsSurvive
<1>12. RunAllAttributesPanics'
  BY <1>2 DEF RunAllAttributesPanics
<1>13. Len(report'.findings) <= Len(slots')
  BY <1>1, <1>2, <1>4
<1> QED BY <1>11, <1>12, <1>13 DEF FindingsSurvive

\* run_all: the messages go to the places of those that panicked, to each one.
LEMMA FilledFacts ==
    ASSUME DoctorInv, Report, entry.kind = "run_all", NEW i \in 1 .. Len(slots)
    PROVE  \/ ended[i] \in {"Ok", "Error"} /\ Filled[i] = Finding(entry.ids[i], ended[i], i)
           \/ ended[i] = "panic" /\ \E j \in PlacesPanicked : Filled[i] = Finding(entry.ids[i], "Error", j)
<1>1. /\ i \in Nat /\ Expected(i) /\ (entry.ids[i] \in Registry => ended[i] # "none")
      /\ \A j \in 1 .. Len(slots) : j \in Nat /\ Expected(j) /\ (entry.ids[j] \in Registry => ended[j] # "none")
      /\ DOMAIN slots = 1 .. Len(slots) /\ DOMAIN entry.ids = 1 .. Len(slots) /\ Len(slots) \in Nat
  BY BeforeTheReport
<1>2. /\ panics \in Seq(Nat) /\ \A n \in DOMAIN panics : panics[n] \in PlacesPanicked
      /\ Len(panics) = Cardinality(PlacesPanicked) /\ IsFiniteSet(PlacesPanicked)
  BY DoctorTypes DEF DoctorInv
<1>3. ASSUME NEW j \in 1 .. Len(slots), slots[j] = Blank
      PROVE  ended[j] = "panic"
  <2>1. Finding(entry.ids[j], "Ok", j) # Blank /\ Finding(entry.ids[j], "Error", j) # Blank
    BY FindingFacts
  <2> QED BY <1>1, <1>3, <2>1 DEF Expected
<1>4. CASE slots[i] # Blank
  <2>1. Filled[i] = slots[i]
    BY <1>1, <1>4 DEF Filled
  <2> QED BY <1>1, <1>4, <2>1 DEF Expected
<1>5. CASE slots[i] = Blank
  <2> DEFINE B == {j \in 1 .. i : slots[j] = Blank}
             n == Cardinality(B)
  <2>1. Filled[i] = Finding(entry.ids[i], "Error", IF n <= Len(panics) THEN panics[n] ELSE 0)
    BY <1>1, <1>5 DEF Filled
  <2>2. B \subseteq PlacesPanicked
    <3>1. ASSUME NEW j \in B
          PROVE  j \in PlacesPanicked
      <4>1. j \in 1 .. Len(slots) /\ slots[j] = Blank
        BY <1>1
      <4> QED BY <1>1, <1>3, <4>1 DEF PlacesPanicked
    <3> QED BY <3>1
  <2>3. i \in B
    BY <1>1, <1>5
  <2> HIDE DEF B
  <2>4. IsFiniteSet(B) /\ n \in Nat /\ n <= Len(panics)
    BY <1>2, <2>2, FS_Subset, FS_CardinalityType
  <2>5. n # 0
    BY <2>3, <2>4, FS_EmptySet
  <2> HIDE DEF n
  <2>6. n \in DOMAIN panics
    BY <1>2, <2>4, <2>5, LenProperties
  <2>7. panics[n] \in PlacesPanicked /\ Filled[i] = Finding(entry.ids[i], "Error", panics[n])
    BY <1>2, <2>1, <2>4, <2>6
  <2>8. ended[i] = "panic"
    BY <1>3, <1>5
  <2> QED BY <2>7, <2>8
<1> QED BY <1>4, <1>5

\* The report of run_all.
LEMMA FilledSurvives ==
    ASSUME DoctorInv, Report, entry.kind = "run_all"
    PROVE  FindingsSurvive'
<1> DEFINE of(i) == Finding(entry.ids[i], IF ended[i] = "none" THEN "Error" ELSE ended[i], i)
           own == {n \in 1 .. Len(slots) : ended[Filled[n].about] # "panic"}
<1>1. /\ entry' = entry /\ ended' = ended /\ slots' = slots
      /\ Len(slots) \in Nat /\ DOMAIN entry.ids = 1 .. Len(slots) /\ DOMAIN slots = 1 .. Len(slots)
      /\ report' = from_findings(Filled)
  BY BeforeTheReport
<1>2. entry.ids = Checks /\ DOMAIN Checks = 1 .. Len(slots) /\ Len(Checks) = Len(slots)
  BY <1>1, BeforeTheReport DEF DoctorInv
<1>3. DOMAIN Filled = 1 .. Len(slots) /\ Len(Filled) = Len(slots)
  <2>1. \E f : Filled = [j \in 1 .. Len(slots) |-> f[j]]
    <3>1. Filled = [j \in DOMAIN slots |-> Filled[j]]
      BY DEF Filled
    <3> QED BY <1>1, <3>1
  <2> QED BY <1>1, <2>1
<1>4. report'.findings = Filled /\ report'.done = TRUE
      /\ report'.count["Error"] = Cardinality({i \in 1 .. Len(slots) : Filled[i].severity = "Error"})
  BY <1>1, <1>3 DEF from_findings, Severities
<1>5. ASSUME NEW i \in 1 .. Len(slots)
      PROVE  /\ Filled[i].check = Checks[i]
             /\ Filled[i].severity = IF ended[i] = "panic" THEN "Error" ELSE ended[i]
             /\ ended[i] = "panic" => ended[Filled[i].about] = "panic"
             /\ ended[i] # "panic" => Filled[i] = of(i) /\ Filled[i].about = i
             /\ ended[i] \in {"Ok", "Error", "panic"}
  <2>1. CASE ended[i] \in {"Ok", "Error"} /\ Filled[i] = Finding(entry.ids[i], ended[i], i)
    <3>1. ended[i] # "panic" /\ ended[i] # "none"
      BY <2>1
    <3>2. Filled[i].check = entry.ids[i] /\ Filled[i].severity = ended[i] /\ Filled[i].about = i
      BY <2>1, FindingFacts
    <3>3. Filled[i] = of(i)
      BY <2>1, <3>1
    <3> HIDE DEF of
    <3> QED BY <1>2, <2>1, <3>1, <3>2, <3>3
  <2>2. CASE ended[i] = "panic" /\ \E j \in PlacesPanicked : Filled[i] = Finding(entry.ids[i], "Error", j)
    <3>1. PICK j \in PlacesPanicked : Filled[i] = Finding(entry.ids[i], "Error", j)
      BY <2>2
    <3>2. Filled[i].check = entry.ids[i] /\ Filled[i].severity = "Error" /\ Filled[i].about = j
      BY <3>1, FindingFacts
    <3>3. ended[j] = "panic"
      BY DEF PlacesPanicked
    <3> HIDE DEF of
    <3> QED BY <1>2, <2>2, <3>2, <3>3
  <2> QED BY <2>1, <2>2, FilledFacts
<1> HIDE DEF of
<1>6. \A n \in 1 .. Len(slots) : n \in own <=> ended[n] # "panic"
  BY <1>5
<1>7. NormalFindingsSurvive'
  <2>1. own = {n \in DOMAIN report'.findings : ended'[report'.findings[n].about] # "panic"}
    BY <1>1, <1>3, <1>4
  <2>2. \A i \in DOMAIN entry'.ids : ended'[i] # "panic" => \E n \in own : report'.findings[n] = of(i)
    <3> SUFFICES ASSUME NEW i \in 1 .. Len(slots), ended[i] # "panic"
                 PROVE  i \in own /\ Filled[i] = of(i)
      BY <1>1, <1>4
    <3> QED BY <1>5, <1>6
  <2>3. \A n \in own : report'.findings[n] = of(report'.findings[n].about)
    <3> SUFFICES ASSUME NEW n \in own
                 PROVE  Filled[n] = of(Filled[n].about)
      BY <1>4
    <3>1. n \in 1 .. Len(slots) /\ ended[n] # "panic"
      BY <1>6
    <3> QED BY <1>5, <3>1
  <2>4. \A m, n \in own : m < n => report'.findings[m].about < report'.findings[n].about
    <3> SUFFICES ASSUME NEW m \in own, NEW n \in own, m < n
                 PROVE  Filled[m].about < Filled[n].about
      BY <1>4
    <3>1. m \in 1 .. Len(slots) /\ ended[m] # "panic" /\ n \in 1 .. Len(slots) /\ ended[n] # "panic"
      BY <1>6
    <3>2. Filled[m].about = m /\ Filled[n].about = n
      BY <1>5, <3>1
    <3> QED BY <3>2
  <2>5. \A i : of(i) = Finding(entry'.ids[i], IF ended'[i] = "none" THEN "Error" ELSE ended'[i], i)
    BY <1>1 DEF of
  <2> HIDE DEF own
  <2> QED BY <2>1, <2>2, <2>3, <2>4, <2>5 DEF NormalFindingsSurvive
<1>8. RunAllAttributesPanics'
  <2>1. {i \in 1 .. Len(slots) : Filled[i].severity = "Error"} = {i \in DOMAIN Checks : ended'[i] \in {"panic", "Error"}}
    <3>1. \A i \in 1 .. Len(slots) : Filled[i].severity = "Error" <=> ended[i] \in {"panic", "Error"}
      BY <1>5
    <3> QED BY <1>1, <1>2, <3>1
  <2>2. report'.count["Error"] = Cardinality({i \in DOMAIN Checks : ended'[i] \in {"panic", "Error"}})
    BY <1>4, <2>1
  <2>3. Len(report'.findings) = Len(Checks)
    BY <1>2, <1>3, <1>4
  <2>4. \A i \in DOMAIN Checks :
          /\ report'.findings[i].check = Checks[i]
          /\ report'.findings[i].severity = IF ended'[i] = "panic" THEN "Error" ELSE ended'[i]
    BY <1>1, <1>2, <1>4, <1>5
  <2> QED BY <2>2, <2>3, <2>4 DEF RunAllAttributesPanics
<1>9. Len(report'.findings) <= Len(slots')
  BY <1>1, <1>3, <1>4
<1> QED BY <1>7, <1>8, <1>9 DEF FindingsSurvive

\* Every step of the doctor.
LEMMA DoctorStep ==
    ASSUME DoctorInv, DoctorNext
    PROVE  DoctorInv'
<1>1. CASE run_all \/ run_filtered \/ create_doctor_command
  BY <1>1, EntriesKeep
<1>2. CASE join_next
  BY <1>2, JoinNextKeeps
<1>3. CASE Report
  <2>1. FindingsSurvive'
    BY <1>3, PresentSurvives, FilledSurvives
  <2> QED BY <1>3, <2>1, ReportKeeps
<1> QED BY <1>1, <1>2, <1>3 DEF DoctorNext

LEMMA DoctorRests ==
    ASSUME DoctorInv, UNCHANGED doctor
    PROVE  DoctorInv'
<1>1. /\ entry' = entry /\ running' = running /\ ended' = ended /\ slots' = slots /\ panics' = panics
      /\ report' = report
  BY DEF doctor
<1>2. PlacesPanicked' = PlacesPanicked
  BY <1>1 DEF PlacesPanicked
<1>3. \A i : Expected(i)' <=> Expected(i)
  BY <1>1, <1>2 DEF Expected
<1>4. TurnedAway' <=> TurnedAway
  BY <1>1 DEF TurnedAway
<1>5. FindingsSurvive'
  <2>1. FindingsSurvive
    BY DEF DoctorInv
  <2> QED BY <1>1, <2>1 DEF FindingsSurvive, NormalFindingsSurvive, RunAllAttributesPanics
<1> QED BY <1>1, <1>2, <1>3, <1>4, <1>5 DEF DoctorInv

-----------------------------------------------------------------------------
(* All sides.                                                              *)

ServingInv == ToolsInv /\ ApiInv /\ DoctorInv /\ SecretsInv /\ PluginsInv

\* The invariants speak of their own variables.
LEMMA OthersKeep ==
    ASSUME ServingInv
    PROVE  /\ UNCHANGED toolcalls => ToolsInv'
           /\ UNCHANGED api => ApiInv'
           /\ UNCHANGED doctor => DoctorInv'
           /\ UNCHANGED secrets => SecretsInv'
           /\ UNCHANGED plugins => PluginsInv'
<1>1. UNCHANGED toolcalls => ToolsInv'
  BY DEF ServingInv, ToolsInv, toolcalls, CallFits, Kept
<1>2. UNCHANGED api => ApiInv'
  BY DEF ServingInv, ApiInv, api, Busy
<1>3. UNCHANGED doctor => DoctorInv'
  BY DoctorRests DEF ServingInv
<1>4. UNCHANGED secrets => SecretsInv'
  BY DEF ServingInv, SecretsInv, secrets, Knows
<1>5. UNCHANGED plugins => PluginsInv'
  BY DEF ServingInv, PluginsInv, plugins
<1> QED BY <1>1, <1>2, <1>3, <1>4, <1>5

\* The initial states of the four sides.
LEMMA InitServing == Init => ServingInv
<1> SUFFICES ASSUME Init
             PROVE  ServingInv
  OBVIOUS
<1>1. ToolsInv
  <2>1. server \in Servers /\ server.phase = "configured"
    BY DEF Init, ToolCallsInit, Servers
  <2>2. call \in [Calls -> Records] /\ \A c \in Calls : call[c] = NoCall
    BY Blank0 DEF Init, ToolCallsInit
  <2>3. \A c \in Calls : CallFits(c)
    BY <2>2, Blank0 DEF Init, ToolCallsInit, CallFits, Picked, AtWork
  <2> QED BY <2>1, <2>2, <2>3 DEF Init, ToolCallsInit, ToolsInv
<1>2. ApiInv
  <2>1. ApiInit
    BY DEF Init
  <2>2. probe.pc = "idle" /\ probe.ready = FALSE
    BY <2>1, Zenon DEF ApiInit
  <2>3. probe \in [pc : {"idle", "checking"}, ready : BOOLEAN, on : BOOLEAN]
    BY <2>1 DEF ApiInit
  <2>4. flags \in [unready : BOOLEAN, cancelled : BOOLEAN]
    BY <2>1 DEF ApiInit
  <2>5. ~probe.ready /\ listening /\ ~served /\ listening \in BOOLEAN /\ served \in BOOLEAN
    BY <2>1, <2>2, Zenon DEF ApiInit
  <2>6. /\ task = "waiting" /\ rounds = 0
        /\ request \in [Requests -> {"none", "handled", "answered"}]
    BY <2>1 DEF ApiInit
  <2> QED BY <2>2, <2>3, <2>4, <2>5, <2>6 DEF ApiInv
<1>3. DoctorInv
  BY DoctorStarts DEF Init
<1>4. SecretsInv
  <2>1. SecretsInit
    BY DEF Init
  <2>2. target \in [text : Texts, private : BOOLEAN]
    <3>1. \A text \in Texts, private \in BOOLEAN : File(text, private) \in [text : Texts, private : BOOLEAN]
      BY DEF File
    <3>2. target \in {File("absent", FALSE), File("old", TRUE), File("old", FALSE)}
      BY <2>1 DEF SecretsInit, NoFile
    <3>3. "absent" \in Texts /\ "old" \in Texts
      BY DEF Texts
    <3> QED BY <3>1, <3>2, <3>3
  <2>3. writer \in [Writers -> Jobs] /\ \A w \in Writers : writer[w] = Idle
    BY <2>1, Idles DEF SecretsInit
  <2>4. \A w \in Writers : Knows(w)
    BY <2>3, Idles DEF Knows, Active
  <2>5. DOMAIN temps = {} /\ left = {} /\ counter \in [Pids -> Nat]
    BY <2>1 DEF SecretsInit
  <2> QED BY <2>1, <2>2, <2>3, <2>4, <2>5, Idles DEF SecretsInit, SecretsInv, Active
<1>5. PluginsInv
  <2>1. config \in AllConfigs
    <3>1. config \in ConfigsOf({})
      BY DEF Init, PluginsInit, Nothing, ConfigsOf
    <3> QED BY <3>1 DEF AllConfigs
  <2>2. \A c \in Configs0 : c \in AllConfigs
    <3> SUFFICES ASSUME NEW ids \in SUBSET Plugs,
                        NEW c \in [ids -> [path : {"first", "broken", "outside"}, enabled : BOOLEAN]]
                 PROVE  c \in AllConfigs
      BY DEF Configs0
    <3>1. c \in ConfigsOf(ids)
      BY DEF ConfigsOf, Entries, Manifests
    <3> QED BY <3>1 DEF AllConfigs
  <2>3. DOMAIN loaded = {}
    BY DEF Init, PluginsInit, Nothing
  <2> QED BY <2>1, <2>2, <2>3 DEF Init, PluginsInit, PluginsInv
<1> QED BY <1>1, <1>2, <1>3, <1>4, <1>5 DEF ServingInv

\* A step of a side keeps its invariant and leaves the others alone.
LEMMA NextServing == ServingInv /\ [Next]_vars => ServingInv'
<1> SUFFICES ASSUME ServingInv, [Next]_vars
             PROVE  ServingInv'
  OBVIOUS
<1>1. CASE ToolCallsNext /\ UNCHANGED <<api, doctor, kept>>
  BY <1>1, ToolsStep, OthersKeep DEF ServingInv, kept
<1>2. CASE ApiNext /\ UNCHANGED <<toolcalls, doctor, kept>>
  BY <1>2, ApiStep, OthersKeep DEF ServingInv, kept
<1>3. CASE DoctorNext /\ UNCHANGED <<toolcalls, api, kept>>
  BY <1>3, DoctorStep, OthersKeep DEF ServingInv, kept
<1>4. CASE SecretsNext /\ UNCHANGED <<toolcalls, api, doctor, plugins, side>>
  BY <1>4, SecretsStep, OthersKeep DEF ServingInv
<1>5. CASE PluginsNext /\ UNCHANGED <<toolcalls, api, doctor, secrets, side>>
  BY <1>5, PluginsStep, OthersKeep DEF ServingInv
<1>6. CASE UNCHANGED vars
  BY <1>6, OthersKeep DEF ServingInv, vars, kept
<1> QED BY <1>1, <1>2, <1>3, <1>4, <1>5, <1>6 DEF Next

\* The invariant holds in every state.
LEMMA ServingHolds == Init /\ [][Next]_vars => []ServingInv
<1>1. Init => ServingInv
  BY InitServing
<1>2. ServingInv /\ [Next]_vars => ServingInv'
  BY NextServing
<1> QED BY <1>1, <1>2, PTL

\* Calls of tools do not touch each other, for any number of calls, callers,
\* exported commands and provided tools: one at a time on stdio, each runs what
\* its caller's list has and the gate let through, each answer is its own
\* (CliFrameworkHandler, dispatch_tool_call_with_identity, invoke_inner).
THEOREM CallsApart == Spec => []CallsAreApart
<1>1. ServingInv => TypeOK
  <2> SUFFICES ASSUME ServingInv
               PROVE  TypeOK
    OBVIOUS
  <2>1. server.phase \in {"configured", "refused", "serving"}
    BY DEF ServingInv, ToolsInv, Servers
  <2>2. guard = Unlocked \/ (guard \in Calls /\ call[guard].pc \notin {"none", "lock", "done"})
    BY DEF ServingInv, ToolsInv, AtWork
  <2>3. ASSUME NEW c \in Calls
        PROVE  call[c].id # "" <=> call[c].could # {}
    <3>1. CallFits(c)
      BY DEF ServingInv, ToolsInv
    <3>2. CASE call[c].pc \in Picked
      BY <3>1, <3>2 DEF CallFits
    <3>3. CASE call[c].pc \notin Picked
      BY <3>1, <3>3 DEF CallFits
    <3> QED BY <3>2, <3>3
  <2>4. running \subseteq DOMAIN entry.ids
    BY DoctorTypes DEF ServingInv
  <2> QED BY <2>1, <2>2, <2>3, <2>4 DEF TypeOK, ServingInv, ApiInv
<1>2. ServingInv => StdioIsSerial
  BY DEF ServingInv, ToolsInv, CallFits, StdioIsSerial, AtWork
<1>3. ServingInv => RunsWhatIsListed
  <2> SUFFICES ASSUME ServingInv, NEW c \in Calls, call[c].id # ""
               PROVE  /\ call[c].id \in call[c].could
                      /\ \A cmd \in Registered :
                           cmd.id = call[c].id /\ server.policy = "ExposeMcpOnly" => cmd.expose_mcp
    BY DEF RunsWhatIsListed
  <2>1. CallFits(c)
    BY DEF ServingInv, ToolsInv
  <2>2. call[c].pc \in Picked
    BY <2>1 DEF CallFits
  <2>3. call[c].could = {call[c].id} /\ Kept(call[c].id)
    BY <2>1, <2>2 DEF CallFits
  <2> QED BY <2>3 DEF Kept
<1>4. ServingInv => GateIsPassed
  BY DEF ServingInv, ToolsInv, CallFits, GateIsPassed
<1>5. ServingInv => OutputIsOwn
  BY DEF ServingInv, ToolsInv, CallFits, OutputIsOwn
<1>6. Init /\ [][Next]_vars => []ServingInv
  BY ServingHolds
<1> QED BY <1>1, <1>2, <1>3, <1>4, <1>5, <1>6, PTL DEF Spec, CallsAreApart

\* From the signal to its end the server neither refuses a request of a
\* balancer that probes nor leaves one unanswered, for any number of requests
\* (serve_with_listener).
THEOREM RequestsAreServed == Spec => []NothingIsDropped
<1>1. ServingInv => NoRequestIsRefused /\ TakenIsAnswered
  BY DEF ServingInv, ApiInv, NoRequestIsRefused, TakenIsAnswered
<1>2. Init /\ [][Next]_vars => []ServingInv
  BY ServingHolds
<1> QED BY <1>1, <1>2, PTL DEF Spec, NothingIsDropped

\* The doctor's report has every finding in its place, in whatever order the
\* checks end and whichever of them panic, for any checks (DoctorRunner,
\* create_doctor_command).
THEOREM FindingsAreKept == Spec => []FindingsSurvive
<1>1. ServingInv => FindingsSurvive
  BY DEF ServingInv, DoctorInv
<1>2. Init /\ [][Next]_vars => []ServingInv
  BY ServingHolds
<1> QED BY <1>1, <1>2, PTL DEF Spec

\* Secrets are whole and plugins loaded only when enabled, for any number of
\* threads, kills, temporary names and plugins (replace_private,
\* PluginRegistryManager).
THEOREM KeptStaysSound == Spec => []KeptIsSound
<1>1. ServingInv => SecretIsWhole
  <2> SUFFICES ASSUME SecretsInv
               PROVE  SecretIsWhole
    BY DEF ServingInv
  <2>1. read_file # "torn"
    <3>1. CASE open_private = "ok"
      BY <3>1, SecretsAssumption DEF read_file, SecretsInv, Texts
    <3>2. CASE open_private # "ok"
      BY <3>2 DEF read_file, open_private
    <3> QED BY <3>1, <3>2
  <2>2. DOMAIN temps \subseteq left \cup {writer[w].temp : w \in {v \in Writers : writer[v].pc \in {"write", "rename"}}}
    BY DEF SecretsInv, Active
  <2>3. ASSUME NEW w \in Writers
        PROVE  /\ writer[w].pc \in {"write", "rename"} =>
                    /\ writer[w].temp \in DOMAIN temps \ left
                    /\ writer[w].pc = "rename" => temps[writer[w].temp] = w
               /\ writer[w].result = "ok" => writer[w].stored
               /\ writer[w].result = "error" /\ os = "unix" => ~writer[w].stored
    BY DEF SecretsInv, Knows, Active
  <2> QED BY <2>1, <2>2, <2>3 DEF SecretIsWhole
<1>2. ServingInv => LoadedIsEnabled
  BY DEF ServingInv, PluginsInv, LoadedIsEnabled
<1>3. Init /\ [][Next]_vars => []ServingInv
  BY ServingHolds
<1> QED BY <1>1, <1>2, <1>3, PTL DEF Spec, KeptIsSound
=============================================================================
