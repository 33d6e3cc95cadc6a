------------------------- MODULE Publication_proofs -------------------------
(***************************************************************************)
(* Proofs about Publication, for any publishers, attempts and faults.       *)
(*                                                                         *)
(* A publisher owns the staging directory of its attempt: it is new when it *)
(* is made, only its owner writes in it, and at each step the names in it   *)
(* are known.  So the rename is the one step that makes an output appear,    *)
(* and it appears whole.  What has been read and written is followed from    *)
(* there to what the outputs say of each other.                              *)
(***************************************************************************)
EXTENDS Publication, FiniteSetTheorems, TLAPS

Before == {"read", "closeout", "trace", "match", "absent"}
Checking == {"verify", "inputs", "rename"}
Staged == {"write", "manifest", "validate", "clean"} \cup Checking
Over == {"idle", "returned", "raised", "dead"}

TypeOK ==
    /\ attempt \in [Publishers -> Nat]
    /\ pc \in [Publishers -> Before \cup Staged \cup Over \cup {"published"}]

\* A directory is a source, an output, or a publisher's for one of its attempts.
IsStaging(dir, p) == \E a \in 1..attempt[p] : dir = <<p, a>>
KnownDirs ==
    /\ \A s \in Sources : At(s) \in dirs
    /\ \A dir \in dirs : \/ \E n \in Kinds \cup Sources : dir = At(n)
                         \/ \E p \in Publishers : IsStaging(dir, p)

\* Files lie in directories there are; those of a staging directory are its owner's.
KnownFiles ==
    \A f \in DOMAIN files :
       /\ f = <<f[1], f[2]>> /\ f[1] \in dirs
       /\ files[f] = [by |-> files[f].by, data |-> files[f].data]
Owned ==
    \A p \in Publishers, a \in Nat \ {0} : \A n :
       <<<<p, a>>, n>> \in DOMAIN files => files[<<<<p, a>>, n>>].by = p

\* The names in a directory, step by step.
Written(kind) == {Payloads(kind)[i] : i \in DOMAIN Payloads(kind)}
LastOf(kind) == Payloads(kind)[Cardinality(DOMAIN Payloads(kind))]
Holds(dir, names) == \A n : <<dir, n>> \in DOMAIN files <=> n \in names
Unpublished(p) ==
    /\ pc[p] \in Staged => Staging(p) \in dirs
    /\ pc[p] = "write" => \A n : <<Staging(p), n>> \in DOMAIN files =>
                             n \in Written(Kind(p)) \ {LastOf(Kind(p))}
    /\ pc[p] = "manifest" => Holds(Staging(p), Written(Kind(p)))
    /\ pc[p] = "validate" => Holds(Staging(p), Written(Kind(p)) \cup {D!ManifestName})
    /\ pc[p] \in Checking => Holds(Staging(p), Whole(Kind(p)))
Published(p) ==
    pc[p] = "published" =>
       /\ At(Kind(p)) \in dirs
       /\ Holds(At(Kind(p)), Whole(Kind(p)))
       /\ \A n \in Whole(Kind(p)) : files[<<At(Kind(p)), n>>].by = p
InHand(p) ==
    /\ pc[p] # "idle" => attempt[p] >= 1
    /\ pc[p] \in Before \cup {"published"} => Staging(p) \notin dirs
    /\ Unpublished(p)
    /\ Published(p)

Inv == TypeOK /\ KnownDirs /\ KnownFiles /\ Owned /\ \A p \in Publishers : InHand(p)

\* What a step leaves of a directory it has nothing to do with.
Untouched(dir) ==
    /\ dir \in dirs' <=> dir \in dirs
    /\ \A n : <<dir, n>> \in DOMAIN files' <=> <<dir, n>> \in DOMAIN files
    /\ \A n : <<dir, n>> \in DOMAIN files => files'[<<dir, n>>].by = files[<<dir, n>>].by

------------------------------------------------------------------------------
(* The names of the three products.                                          *)

LEMMA PayloadOrder ==
    ASSUME NEW kind \in Kinds
    PROVE  /\ DOMAIN Payloads(kind) = 1..Cardinality(DOMAIN Payloads(kind))
           /\ Cardinality(DOMAIN Payloads(kind)) \in Nat \ {0}
           /\ \A i \in DOMAIN Payloads(kind) :
                 Payloads(kind)[i] = LastOf(kind) => i = Cardinality(DOMAIN Payloads(kind))
<1>1. CASE kind = "recovery"
  <2>1. DOMAIN Payloads(kind) = 1..1
    BY <1>1 DEF Payloads, RecoveryPayloads
  <2>2. Cardinality(1..1) = 1
    <3>1. Cardinality(1..1) = IF 1 > 1 THEN 0 ELSE 1 - 1 + 1
      BY FS_Interval, 1 \in Int, 1 \in Int, Zenon
    <3> QED BY <3>1
  <2> QED BY <1>1, <2>1, <2>2 DEF LastOf, Payloads, RecoveryPayloads
<1>2. CASE kind \in {"perfetto", "overview"}
  <2>1. DOMAIN Payloads(kind) = 1..3
    BY <1>2 DEF Payloads, PerfettoPayloads, OverviewPayloads
  <2>2. Cardinality(1..3) = 3
    <3>1. Cardinality(1..3) = IF 1 > 3 THEN 0 ELSE 3 - 1 + 1
      BY FS_Interval, 1 \in Int, 3 \in Int, Zenon
    <3> QED BY <3>1
  <2>3. /\ Payloads(kind)[1] # Payloads(kind)[3]
        /\ Payloads(kind)[2] # Payloads(kind)[3]
    BY <1>2 DEF Payloads, PerfettoPayloads, OverviewPayloads
  <2> QED BY <2>1, <2>2, <2>3 DEF LastOf
<1> QED BY <1>1, <1>2 DEF Kinds

LEMMA PayloadNames ==
    ASSUME NEW kind \in Kinds
    PROVE  /\ Whole(kind) = Written(kind) \cup {D!ManifestName, D!ValidationName}
           /\ Whole(kind) # {}
BY DEF Whole, Written

\* A staging directory is none of the sources and outputs, and nobody else's.
LEMMA StagingIsOnesOwn ==
    ASSUME TypeOK, NEW p \in Publishers, attempt[p] >= 1
    PROVE  /\ \A n : Staging(p) # At(n)
           /\ \A q \in Publishers \ {p} : Staging(q) # Staging(p)
BY DEF TypeOK, Staging, At

LEMMA NamesOf ==
    ASSUME KnownFiles, NEW dir, NEW n
    PROVE  n \in Names(dir) <=> <<dir, n>> \in DOMAIN files
BY DEF KnownFiles, Names

LEMMA InitInv == Init => Inv
<1> SUFFICES ASSUME Init PROVE Inv
  OBVIOUS
<1>1. TypeOK
  BY DEF Init, TypeOK, Over
<1>2. KnownDirs
  BY DEF Init, KnownDirs
<1>3. KnownFiles /\ Owned
  BY DEF Init, KnownFiles, Owned, Events, At, Sources
<1>4. ASSUME NEW p \in Publishers PROVE InHand(p)
  BY DEF Init, InHand, Unpublished, Published, Before, Staged, Checking
<1> QED BY <1>1, <1>2, <1>3, <1>4 DEF Inv

------------------------------------------------------------------------------
(* Steps and what they leave alone.                                          *)

LEMMA Frame ==
    ASSUME NEW q \in Publishers, InHand(q), pc'[q] = pc[q], attempt'[q] = attempt[q],
           Untouched(Staging(q)),
           pc[q] = "published" => Untouched(At(Kind(q))) /\ Holds(At(Kind(q)), Whole(Kind(q)))
    PROVE  InHand(q)'
<1>1. Staging(q)' = Staging(q)
  BY DEF Staging
<1>2. ASSUME NEW names, Holds(Staging(q), names) PROVE Holds(Staging(q), names)'
  BY <1>1, <1>2 DEF Holds, Untouched
<1>3. Unpublished(q)'
  BY <1>1 DEF InHand, Unpublished, Untouched, Holds
<1>4. Published(q)'
  BY DEF InHand, Published, Untouched, Holds
<1> QED BY <1>1, <1>3, <1>4 DEF InHand, Untouched

\* Steps that write nothing: ending, going on before anything is made or from one
\* check to the next, and giving up.
Follows(from, to) ==
    \/ from # "idle" /\ to \in {"returned", "raised", "dead"}
    \/ from \in Before /\ to \in Before
    \/ from \in Checking /\ to \in Checking
    \/ from \in Staged /\ to = "clean"

LEMMA QuietInv ==
    ASSUME Inv, NEW p \in Publishers, NEW s, Goto(p, s), Follows(pc[p], s),
           UNCHANGED <<dirs, files, attempt>>
    PROVE  Inv'
<1> USE DEF Inv
<1>1. TypeOK'
  BY DEF TypeOK, Goto, Follows, Before, Staged, Checking, Over
<1>2. KnownDirs' /\ KnownFiles' /\ Owned'
  BY DEF KnownDirs, IsStaging, KnownFiles, Owned
<1>3. \A q \in Publishers : Staging(q)' = Staging(q)
  BY DEF Staging
<1>4. ASSUME NEW q \in Publishers PROVE InHand(q)'
  <2>1. CASE q = p
    <3>1. pc'[p] = s
      BY DEF Goto, TypeOK
    <3>2. Unpublished(p)'
      BY <1>3, <3>1 DEF InHand, Unpublished, Holds, Follows, Before, Staged, Checking
    <3>3. Published(p)'
      BY <3>1 DEF Published, Follows, Before, Checking
    <3> QED BY <1>3, <2>1, <3>1, <3>2, <3>3 DEF InHand, Follows, Before, Staged, Checking
  <2>2. CASE q # p
    <3>1. pc'[q] = pc[q] /\ attempt'[q] = attempt[q]
      BY <2>2 DEF Goto, TypeOK
    <3>2. \A dir : Untouched(dir)
      BY DEF Untouched
    <3> QED BY <3>1, <3>2, Frame DEF InHand, Published
  <2> QED BY <2>1, <2>2
<1> QED BY <1>1, <1>2, <1>4

\* What writing one file does.
LEMMA PutOne ==
    ASSUME NEW dir, NEW name, NEW p, NEW data, Put(<<dir, name>>, p, data)
    PROVE  /\ DOMAIN files' = DOMAIN files \cup {<<dir, name>>}
           /\ files'[<<dir, name>>] = [by |-> p, data |-> data]
           /\ \A f \in DOMAIN files \ {<<dir, name>>} : files'[f] = files[f]
           /\ \A n : <<dir, n>> \in DOMAIN files' <=> n = name \/ <<dir, n>> \in DOMAIN files
BY DEF Put

LEMMA PutElsewhere ==
    ASSUME NEW dir, NEW name, NEW p, NEW data, Put(<<dir, name>>, p, data), UNCHANGED dirs,
           NEW other, other # dir
    PROVE  Untouched(other)
<1>1. \A n : <<other, n>> # <<dir, name>>
  OBVIOUS
<1> QED BY <1>1, PutOne DEF Untouched

\* A publisher writes a file of its own staging directory.
LEMMA WriteInv ==
    ASSUME Inv, NEW p \in Publishers, NEW name, NEW data, pc[p] \in Staged,
           Put(<<Staging(p), name>>, p, data), UNCHANGED <<dirs, attempt>>,
           NEW s \in Staged \cup {"raised"}, Goto(p, s), InHand(p)'
    PROVE  Inv'
<1> USE DEF Inv
<1>1. attempt[p] >= 1 /\ Staging(p) \in dirs
  BY DEF InHand, Unpublished, Staged, Checking
<1>2. TypeOK'
  BY DEF TypeOK, Goto, Staged, Checking, Over
<1>3. KnownDirs'
  BY DEF KnownDirs, IsStaging
<1> DEFINE new == <<Staging(p), name>>
<1>p. /\ DOMAIN files' = DOMAIN files \cup {new}
      /\ files'[new] = [by |-> p, data |-> data]
      /\ \A f \in DOMAIN files \ {new} : files'[f] = files[f]
  BY PutOne
<1>4. KnownFiles'
  <2> SUFFICES ASSUME NEW f \in DOMAIN files'
               PROVE  /\ f = <<f[1], f[2]>> /\ f[1] \in dirs'
                      /\ files'[f] = [by |-> files'[f].by, data |-> files'[f].data]
    BY DEF KnownFiles
  <2>1. CASE f = new
    BY <1>1, <1>p, <2>1
  <2>2. CASE f # new
    <3>1. f \in DOMAIN files /\ files'[f] = files[f]
      BY <1>p, <2>2
    <3> QED BY <3>1 DEF KnownFiles
  <2> QED BY <2>1, <2>2
<1>5. Owned'
  <2> SUFFICES ASSUME NEW q \in Publishers, NEW a \in Nat \ {0}, NEW n,
                      <<<<q, a>>, n>> \in DOMAIN files'
               PROVE  files'[<<<<q, a>>, n>>].by = q
    BY DEF Owned
  <2>1. CASE <<<<q, a>>, n>> = new
    <3>1. q = p
      BY <2>1 DEF Staging
    <3> QED BY <1>p, <2>1, <3>1
  <2>2. CASE <<<<q, a>>, n>> # new
    <3> HIDE DEF new
    <3> QED BY <1>p, <2>2 DEF Owned
  <2> QED BY <2>1, <2>2
<1>6. ASSUME NEW q \in Publishers \ {p} PROVE InHand(q)'
  <2>1. pc'[q] = pc[q] /\ attempt'[q] = attempt[q]
    BY DEF Goto, TypeOK
  <2>2. Staging(q) # Staging(p) /\ At(Kind(q)) # Staging(p)
    BY <1>1, StagingIsOnesOwn
  <2>3. Untouched(Staging(q)) /\ Untouched(At(Kind(q)))
    BY <2>2, PutElsewhere
  <2> QED BY <2>1, <2>3, Frame DEF InHand, Published
<1> QED BY <1>2, <1>3, <1>4, <1>5, <1>6

------------------------------------------------------------------------------
(* The steps of a publisher.                                                 *)

LEMMA StartInv == ASSUME Inv, NEW p \in Publishers, Start(p) PROVE Inv'
<1> USE DEF Inv, Start
<1>1. TypeOK'
  BY DEF TypeOK, Goto, Before
<1>2. attempt'[p] = attempt[p] + 1 /\ \A q \in Publishers \ {p} : attempt'[q] = attempt[q]
  BY DEF TypeOK
<1>3. KnownDirs'
  <2>1. ASSUME NEW q \in Publishers, NEW dir, IsStaging(dir, q) PROVE IsStaging(dir, q)'
    <3>1. attempt[q] \in Nat /\ attempt'[q] \in Nat /\ attempt[q] <= attempt'[q]
      BY <1>2 DEF TypeOK
    <3> QED BY <2>1, <3>1 DEF IsStaging
  <2> QED BY <2>1 DEF KnownDirs
<1>4. KnownFiles' /\ Owned'
  BY DEF KnownFiles, Owned
<1>5. InHand(p)'
  <2>1. Staging(p)' = <<p, attempt[p] + 1>>
    BY <1>2 DEF Staging
  <2>2. <<p, attempt[p] + 1>> \notin dirs
    <3>1. attempt[p] \in Nat
      BY DEF TypeOK
    <3>2. \A n : At(n) # <<p, attempt[p] + 1>>
      BY <3>1 DEF At
    <3>3. \A q \in Publishers : ~IsStaging(<<p, attempt[p] + 1>>, q)
      BY <3>1 DEF IsStaging
    <3> QED BY <3>2, <3>3 DEF KnownDirs
  <2>3. pc'[p] \in {"absent", "read"}
    BY DEF Goto, TypeOK
  <2> QED BY <1>1, <1>2, <2>1, <2>2, <2>3
          DEF InHand, Unpublished, Published, Before, Staged, Checking, TypeOK
<1>6. ASSUME NEW q \in Publishers \ {p} PROVE InHand(q)'
  <2>1. pc'[q] = pc[q] /\ attempt'[q] = attempt[q]
    BY <1>2 DEF Goto, TypeOK
  <2>2. \A dir : Untouched(dir)
    BY DEF Untouched
  <2> QED BY <2>1, <2>2, Frame DEF InHand, Published
<1> QED BY <1>1, <1>3, <1>4, <1>5, <1>6

LEMMA MakeStagingInv == ASSUME Inv, NEW p \in Publishers, MakeStaging(p) PROVE Inv'
<1>1. CASE At(Kind(p)) \in dirs
  <2>1. Goto(p, "raised") /\ UNCHANGED <<dirs, files, attempt>> /\ pc[p] = "absent"
    BY <1>1 DEF MakeStaging
  <2> QED BY <2>1, QuietInv DEF Follows
<1>2. CASE At(Kind(p)) \notin dirs
  <2> USE DEF Inv
  <2>1. /\ pc[p] = "absent" /\ Goto(p, "write") /\ dirs' = dirs \cup {Staging(p)}
        /\ files' = files /\ attempt' = attempt
    BY <1>2 DEF MakeStaging
  <2>2. attempt[p] >= 1 /\ Staging(p) \notin dirs
    BY <2>1 DEF InHand, Before
  <2>3. TypeOK'
    BY <2>1 DEF TypeOK, Goto, Staged
  <2>4. KnownDirs'
    <3>1. IsStaging(Staging(p), p)
      BY <2>2 DEF IsStaging, Staging, TypeOK
    <3>2. \A dir, q : IsStaging(dir, q)' <=> IsStaging(dir, q)
      BY <2>1 DEF IsStaging
    <3> QED BY <2>1, <3>1, <3>2 DEF KnownDirs
  <2>5. KnownFiles' /\ Owned'
    BY <2>1 DEF KnownFiles, Owned
  <2>6. InHand(p)'
    <3>1. Staging(p)' = Staging(p) /\ pc'[p] = "write"
      BY <2>1 DEF Staging, Goto, TypeOK
    <3>2. \A n : <<Staging(p), n>> \notin DOMAIN files
      BY <2>2 DEF KnownFiles
    <3> QED BY <2>1, <2>2, <3>1, <3>2
            DEF InHand, Unpublished, Published, Before, Staged, Checking
  <2>7. ASSUME NEW q \in Publishers \ {p} PROVE InHand(q)'
    <3>1. pc'[q] = pc[q] /\ attempt'[q] = attempt[q]
      BY <2>1 DEF Goto, TypeOK
    <3>2. Untouched(Staging(q)) /\ Untouched(At(Kind(q)))
      BY <2>1, <2>2, StagingIsOnesOwn DEF Untouched
    <3> QED BY <3>1, <3>2, Frame DEF InHand, Published
  <2> QED BY <2>3, <2>4, <2>5, <2>6, <2>7
<1> QED BY <1>1, <1>2

LEMMA WritePayloadInv == ASSUME Inv, NEW p \in Publishers, WritePayload(p) PROVE Inv'
<1> USE PublisherKinds DEF Inv
<1> DEFINE order == Payloads(Kind(p))
           last == Cardinality(DOMAIN order)
<1>1. pc[p] = "write" /\ UNCHANGED <<dirs, attempt>>
  BY DEF WritePayload
<1>2. PICK i \in DOMAIN order :
         /\ \A j \in DOMAIN order : j < i => order[j] \in Names(Staging(p))
         /\ Put(<<Staging(p), order[i]>>, p, Payload(p, order[i]))
         /\ Goto(p, IF i = last THEN "manifest" ELSE "write")
  BY DEF WritePayload
<1>3. /\ DOMAIN order = 1..last /\ last \in Nat \ {0}
      /\ order[last] = LastOf(Kind(p))
      /\ \A j \in DOMAIN order : order[j] = LastOf(Kind(p)) => j = last
  BY PayloadOrder DEF LastOf
<1>4. \A n : <<Staging(p), n>> \in DOMAIN files' <=> n = order[i] \/ <<Staging(p), n>> \in DOMAIN files
  BY <1>2, PutOne
<1>5. \A n : <<Staging(p), n>> \in DOMAIN files => n \in Written(Kind(p)) \ {LastOf(Kind(p))}
  BY <1>1 DEF InHand, Unpublished
<1>6. /\ attempt[p] >= 1 /\ Staging(p) \in dirs /\ Staging(p)' = Staging(p)
  BY <1>1 DEF InHand, Unpublished, Staged, Staging
<1>7. order[i] \in Written(Kind(p))
  BY DEF Written
<1>8. CASE i = last
  <2>1. pc'[p] = "manifest"
    BY <1>2, <1>8 DEF Goto, TypeOK
  <2>2. ASSUME NEW n \in Written(Kind(p)) PROVE <<Staging(p), n>> \in DOMAIN files'
    <3>1. PICK j \in DOMAIN order : n = order[j]
      BY DEF Written
    <3>2. CASE j = last
      BY <1>4, <1>8, <3>1, <3>2
    <3>3. CASE j # last
      <4>1. order[j] \in Names(Staging(p))
        BY <1>2, <1>3, <1>8, <3>3
      <4> QED BY <1>4, <3>1, <4>1, NamesOf
    <3> QED BY <3>2, <3>3
  <2>3. Holds(Staging(p), Written(Kind(p)))'
    BY <1>4, <1>5, <1>6, <1>7, <2>2 DEF Holds
  <2>4. InHand(p)'
    BY <1>1, <1>6, <2>1, <2>3 DEF InHand, Unpublished, Published, Before, Checking
  <2> QED BY <1>1, <1>2, <1>8, <2>4, WriteInv DEF Staged
<1>9. CASE i # last
  <2>1. pc'[p] = "write"
    BY <1>2, <1>9 DEF Goto, TypeOK
  <2>2. order[i] # LastOf(Kind(p))
    BY <1>3, <1>9
  <2>3. InHand(p)'
    BY <1>1, <1>4, <1>5, <1>6, <1>7, <2>1, <2>2 DEF InHand, Unpublished, Published, Before, Checking
  <2> QED BY <1>1, <1>2, <1>9, <2>3, WriteInv DEF Staged
<1> QED BY <1>8, <1>9

LEMMA GivesUpInv ==
    ASSUME Inv, NEW p \in Publishers, pc[p] \in Staged, GivesUp(p),
           UNCHANGED <<dirs, files, attempt>>
    PROVE  Inv'
<1>1. CASE Goto(p, "raised")
  BY <1>1, QuietInv DEF Follows, Staged, Checking
<1>2. CASE Goto(p, "clean")
  BY <1>2, QuietInv DEF Follows
<1> QED BY <1>1, <1>2 DEF GivesUp

LEMMA WriteManifestInv == ASSUME Inv, NEW p \in Publishers, WriteManifest(p) PROVE Inv'
<1>1. pc[p] = "manifest" /\ UNCHANGED <<dirs, attempt>>
  BY DEF WriteManifest
<1>2. \/ GivesUp(p) /\ UNCHANGED files
      \/ \E manifest : Goto(p, "validate") /\ Put(<<Staging(p), D!ManifestName>>, p, manifest)
  BY DEF WriteManifest
<1>3. CASE GivesUp(p) /\ UNCHANGED files
  BY <1>1, <1>3, GivesUpInv DEF Staged
<1>4. ASSUME NEW manifest, Goto(p, "validate"), Put(<<Staging(p), D!ManifestName>>, p, manifest)
      PROVE  Inv'
  <2> USE DEF Inv
  <2>1. pc'[p] = "validate" /\ Staging(p)' = Staging(p)
    BY <1>1, <1>4 DEF Goto, TypeOK, Staging
  <2>2. Holds(Staging(p), Written(Kind(p)))
    BY <1>1 DEF InHand, Unpublished
  <2>3. \A n : <<Staging(p), n>> \in DOMAIN files'
                  <=> n = D!ManifestName \/ <<Staging(p), n>> \in DOMAIN files
    BY <1>4, PutOne
  <2>4. Holds(Staging(p), Written(Kind(p)) \cup {D!ManifestName})'
    BY <2>1, <2>2, <2>3 DEF Holds
  <2>5. InHand(p)'
    BY <1>1, <2>1, <2>4 DEF InHand, Unpublished, Published, Before, Staged, Checking
  <2> QED BY <1>1, <1>4, <2>5, WriteInv DEF Staged
<1> QED BY <1>2, <1>3, <1>4

LEMMA ValidateInv == ASSUME Inv, NEW p \in Publishers, Validate(p) PROVE Inv'
<1> USE PublisherKinds
<1>1. pc[p] = "validate" /\ UNCHANGED <<dirs, attempt>>
  BY DEF Validate
<1> DEFINE report == D!ValidateManifest(files[<<Staging(p), D!ManifestName>>].data,
                                        Inventoried(Kind(p), Staging(p)))
           given == IF Kind(p) = "recovery" THEN "raised" ELSE "clean"
           s == IF ~report.valid THEN given ELSE IF Kind(p) = "recovery" THEN "rename" ELSE "verify"
<1>2. /\ Goto(p, s)
      /\ \/ Put(<<Staging(p), D!ValidationName>>, p, report)
         \/ UNCHANGED files /\ s \in {"raised", "clean"}
  <2> HIDE DEF report
  <2>1. /\ IF report.valid \/ Kind(p) = "recovery"
             THEN Put(<<Staging(p), D!ValidationName>>, p, report) ELSE UNCHANGED files
        /\ IF report.valid THEN Goto(p, IF Kind(p) = "recovery" THEN "rename" ELSE "verify")
           ELSE GivesUp(p)
    BY DEF Validate, report
  <2>2. CASE report.valid
    BY <2>1, <2>2
  <2>3. CASE ~report.valid
    BY <2>1, <2>3 DEF GivesUp
  <2> QED BY <2>2, <2>3
<1>s. s \in {"rename", "verify", "raised", "clean"}
  OBVIOUS
<1> HIDE DEF report, s
<1>3. CASE UNCHANGED files /\ s \in {"raised", "clean"}
  BY <1>1, <1>2, <1>3, QuietInv DEF Follows, Staged
<1>4. CASE Put(<<Staging(p), D!ValidationName>>, p, report)
  <2> USE DEF Inv
  <2>1. pc'[p] = s /\ Staging(p)' = Staging(p)
    BY <1>1, <1>2, <1>s DEF Goto, TypeOK, Staging
  <2>2. Holds(Staging(p), Written(Kind(p)) \cup {D!ManifestName})
    BY <1>1 DEF InHand, Unpublished
  <2>3. \A n : <<Staging(p), n>> \in DOMAIN files'
                  <=> n = D!ValidationName \/ <<Staging(p), n>> \in DOMAIN files
    BY <1>4, PutOne
  <2>4. Whole(Kind(p)) = (Written(Kind(p)) \cup {D!ManifestName}) \cup {D!ValidationName}
    BY PayloadNames
  <2>5. Holds(Staging(p), Whole(Kind(p)))'
    BY <2>1, <2>2, <2>3, <2>4 DEF Holds
  <2>6. InHand(p)'
    BY <1>1, <1>s, <2>1, <2>5 DEF InHand, Unpublished, Published, Before, Staged, Checking
  <2> QED BY <1>1, <1>2, <1>s, <1>4, <2>6, WriteInv DEF Staged, Checking
<1> QED BY <1>2, <1>3, <1>4

LEMMA RemoveStagingInv == ASSUME Inv, NEW p \in Publishers, RemoveStaging(p) PROVE Inv'
<1> USE DEF Inv
<1>1. /\ pc[p] = "clean" /\ Goto(p, "raised") /\ dirs' = dirs \ {Staging(p)}
      /\ files' = [f \in {f \in DOMAIN files : f[1] # Staging(p)} |-> files[f]]
      /\ attempt' = attempt
  BY DEF RemoveStaging
<1>2. attempt[p] >= 1
  BY <1>1 DEF InHand
<1>3. TypeOK'
  BY <1>1 DEF TypeOK, Goto, Over
<1>4. KnownDirs'
  <2>1. \A dir, q : IsStaging(dir, q)' <=> IsStaging(dir, q)
    BY <1>1 DEF IsStaging
  <2> QED BY <1>1, <1>2, <2>1, StagingIsOnesOwn DEF KnownDirs
<1>5. KnownFiles' /\ Owned'
  BY <1>1 DEF KnownFiles, Owned
<1>6. InHand(p)'
  <2>1. pc'[p] = "raised"
    BY <1>1 DEF Goto, TypeOK
  <2> QED BY <1>1, <1>2, <2>1 DEF InHand, Unpublished, Published, Before, Staged, Checking
<1>7. ASSUME NEW q \in Publishers \ {p} PROVE InHand(q)'
  <2>1. pc'[q] = pc[q] /\ attempt'[q] = attempt[q]
    BY <1>1 DEF Goto, TypeOK
  <2>2. \A dir : dir # Staging(p) => Untouched(dir)
    BY <1>1 DEF Untouched
  <2>3. Untouched(Staging(q)) /\ Untouched(At(Kind(q)))
    BY <1>2, <2>2, StagingIsOnesOwn
  <2> QED BY <2>1, <2>3, Frame DEF InHand, Published
<1> QED BY <1>3, <1>4, <1>5, <1>6, <1>7

\* The one step that makes an output appear.
LEMMA RenameAppears ==
    ASSUME Inv, NEW p \in Publishers, Rename(p), At(Kind(p)) \notin dirs
    PROVE  /\ \A n : <<At(Kind(p)), n>> \notin DOMAIN files
           /\ Holds(At(Kind(p)), Whole(Kind(p)))'
           /\ \A n \in Whole(Kind(p)) : files'[<<At(Kind(p)), n>>].by = p
           /\ \A dir : dir \notin {At(Kind(p)), Staging(p)} => Untouched(dir)
<1> USE DEF Inv
<1> DEFINE to == At(Kind(p))
<1>1. /\ pc[p] = "rename" /\ dirs' = (dirs \ {Staging(p)}) \cup {to}
      /\ files' = Moved(Staging(p), to)
  BY DEF Rename
<1>2. Holds(Staging(p), Whole(Kind(p))) /\ attempt[p] >= 1
  BY <1>1 DEF InHand, Unpublished, Checking
<1>3. \A n : <<to, n>> \notin DOMAIN files
  BY DEF KnownFiles
<1>4. \A n \in Whole(Kind(p)) : files[<<Staging(p), n>>].by = p
  BY <1>2 DEF Holds, Owned, Staging, TypeOK
<1> DEFINE gone == {f \in DOMAIN files : f[1] = Staging(p)}
           new == {<<to, f[2]>> : f \in gone}
<1>5. files' = [f \in (DOMAIN files \ gone) \cup new |->
                   IF f \in new THEN files[<<Staging(p), f[2]>>] ELSE files[f]]
  BY <1>1 DEF Moved
<1>6. ASSUME NEW n PROVE <<to, n>> \in new <=> n \in Whole(Kind(p))
  <2>1. <<to, n>> \in new <=> \E f \in gone : f[2] = n
    OBVIOUS
  <2>2. ASSUME NEW f \in gone PROVE f = <<Staging(p), f[2]>>
    BY DEF KnownFiles
  <2>3. (\E f \in gone : f[2] = n) <=> <<Staging(p), n>> \in DOMAIN files
    BY <2>2
  <2> QED BY <1>2, <2>1, <2>3 DEF Holds
<1>7. \A dir, n : dir # to => <<dir, n>> \notin new
  OBVIOUS
<1> HIDE DEF new
<1>8. \A n : <<to, n>> \in DOMAIN files' <=> n \in Whole(Kind(p))
  BY <1>3, <1>5, <1>6
<1>9. \A n \in Whole(Kind(p)) : files'[<<to, n>>].by = p
  BY <1>4, <1>5, <1>6
<1>10. ASSUME NEW dir, dir \notin {to, Staging(p)} PROVE Untouched(dir)
  <2>1. \A n : <<dir, n>> \in DOMAIN files' <=> <<dir, n>> \in DOMAIN files
    BY <1>5, <1>7, <1>10
  <2>2. \A n : <<dir, n>> \in DOMAIN files => files'[<<dir, n>>] = files[<<dir, n>>]
    BY <1>5, <1>7, <1>10
  <2> QED BY <1>1, <1>10, <2>1, <2>2 DEF Untouched
<1> QED BY <1>3, <1>8, <1>9, <1>10 DEF Holds

LEMMA RenameInv == ASSUME Inv, NEW p \in Publishers, Rename(p) PROVE Inv'
<1> USE PublisherKinds
<1>1. CASE At(Kind(p)) \in dirs
  <2>1. pc[p] \in Staged /\ GivesUp(p) /\ UNCHANGED <<dirs, files, attempt>>
    BY <1>1 DEF Rename, Staged, Checking
  <2> QED BY <2>1, GivesUpInv
<1>2. CASE At(Kind(p)) \notin dirs
  <2> USE DEF Inv
  <2> DEFINE to == At(Kind(p))
             gone == {f \in DOMAIN files : f[1] = Staging(p)}
             new == {<<to, f[2]>> : f \in gone}
  <2>1. /\ pc[p] = "rename" /\ dirs' = (dirs \ {Staging(p)}) \cup {to}
        /\ Goto(p, "published") /\ attempt' = attempt
        /\ files' = [f \in (DOMAIN files \ gone) \cup new |->
                        IF f \in new THEN files[<<Staging(p), f[2]>>] ELSE files[f]]
    BY <1>2 DEF Rename, Moved
  <2>2. attempt[p] >= 1 /\ to # Staging(p)
    BY <2>1, StagingIsOnesOwn DEF InHand
  <2>3. TypeOK'
    BY <2>1 DEF TypeOK, Goto
  <2>4. KnownDirs'
    <3>1. \A dir, q : IsStaging(dir, q)' <=> IsStaging(dir, q)
      BY <2>1 DEF IsStaging
    <3> QED BY <2>1, <2>2, <3>1, StagingIsOnesOwn DEF KnownDirs
  <2>5. KnownFiles'
    <3> SUFFICES ASSUME NEW f \in DOMAIN files'
                 PROVE  /\ f = <<f[1], f[2]>> /\ f[1] \in dirs'
                        /\ files'[f] = [by |-> files'[f].by, data |-> files'[f].data]
      BY DEF KnownFiles
    <3>1. CASE f \in new
      <4>1. PICK g \in gone : f = <<to, g[2]>>
        BY <3>1
      <4>2. g = <<Staging(p), g[2]>> /\ g \in DOMAIN files
        BY DEF KnownFiles
      <4>3. files'[f] = files[g]
        <5> HIDE DEF new
        <5> QED BY <2>1, <3>1, <4>1, <4>2
      <4> QED BY <2>1, <4>1, <4>2, <4>3 DEF KnownFiles
    <3>2. CASE f \notin new
      <4>1. f \in DOMAIN files \ gone /\ files'[f] = files[f]
        <5> HIDE DEF new
        <5> QED BY <2>1, <3>2
      <4> QED BY <2>1, <4>1 DEF KnownFiles
    <3> QED BY <3>1, <3>2
  <2>6. /\ Holds(to, Whole(Kind(p)))'
        /\ \A n \in Whole(Kind(p)) : files'[<<to, n>>].by = p
        /\ \A dir : dir \notin {to, Staging(p)} => Untouched(dir)
    BY <1>2, RenameAppears
  <2>7. Owned'
    <3> SUFFICES ASSUME NEW q \in Publishers, NEW a \in Nat \ {0}, NEW n,
                        <<<<q, a>>, n>> \in DOMAIN files'
                 PROVE  files'[<<<<q, a>>, n>>].by = q
      BY DEF Owned
    <3>1. <<q, a>> # to
      BY DEF At
    <3>2. <<q, a>> # Staging(p)
      <4>1. \A m : <<Staging(p), m>> \notin DOMAIN files'
        <5>1. \A m : <<Staging(p), m>> \notin new
          BY <2>2
        <5> HIDE DEF new
        <5> QED BY <2>1, <5>1
      <4> QED BY <4>1
    <3> QED BY <2>6, <3>1, <3>2 DEF Untouched, Owned
  <2>8. InHand(p)'
    <3>1. pc'[p] = "published" /\ Staging(p)' = Staging(p)
      BY <2>1 DEF Goto, TypeOK, Staging
    <3> QED BY <2>1, <2>2, <2>6, <3>1
            DEF InHand, Unpublished, Published, Before, Staged, Checking
  <2>9. ASSUME NEW q \in Publishers \ {p} PROVE InHand(q)'
    <3>1. pc'[q] = pc[q] /\ attempt'[q] = attempt[q]
      BY <2>1 DEF Goto, TypeOK
    <3>2. pc[q] = "published" => At(Kind(q)) # to
      BY <1>2 DEF InHand, Published
    <3>3. \/ Untouched(Staging(q))
          \/ Staging(q) = to
      BY <2>2, <2>6, StagingIsOnesOwn
    <3>4. CASE Staging(q) = to
      <4>1. pc[q] = "idle"
        BY <3>4, StagingIsOnesOwn DEF InHand, TypeOK
      <4> QED BY <3>1, <4>1 DEF InHand, Unpublished, Published, Before, Staged, Checking
    <3>5. CASE Untouched(Staging(q))
      <4>1. pc[q] = "published" => Untouched(At(Kind(q)))
        BY <2>2, <2>6, <3>2, StagingIsOnesOwn
      <4> QED BY <3>1, <3>5, <4>1, Frame DEF InHand, Published
    <3> QED BY <3>3, <3>4, <3>5
  <2> QED BY <2>3, <2>4, <2>5, <2>7, <2>8, <2>9
<1> QED BY <1>1, <1>2

LEMMA VerifyPublishedInv == ASSUME Inv, NEW p \in Publishers, VerifyPublished(p) PROVE Inv'
<1> USE PublisherKinds
<1> DEFINE kind == Kind(p)
           report == D!ValidateManifest(files[<<At(kind), D!ManifestName>>].data,
                                        Inventoried(kind, At(kind)))
<1>1. /\ pc[p] = "published" /\ UNCHANGED <<dirs, attempt>>
      /\ Goto(p, "returned") \/ Goto(p, "raised")
      /\ Put(<<At(kind), D!ValidationName>>, p, report) \/ UNCHANGED files
  <2> HIDE DEF report
  <2> QED BY DEF VerifyPublished, report
<1>2. CASE UNCHANGED files
  BY <1>1, <1>2, QuietInv DEF Follows
<1>3. CASE Put(<<At(kind), D!ValidationName>>, p, report)
  <2> USE DEF Inv
  <2> DEFINE new == <<At(kind), D!ValidationName>>
  <2> HIDE DEF report
  <2>1. /\ At(kind) \in dirs /\ \A n \in Whole(kind) : files[<<At(kind), n>>].by = p
        /\ Holds(At(kind), Whole(kind))
    BY <1>1 DEF InHand, Published
  <2>2. /\ DOMAIN files' = DOMAIN files \cup {new}
        /\ files'[new] = [by |-> p, data |-> report]
        /\ \A f \in DOMAIN files \ {new} : files'[f] = files[f]
    BY <1>3, PutOne
  <2>3. TypeOK'
    BY <1>1 DEF TypeOK, Goto, Over
  <2>4. KnownDirs'
    BY <1>1 DEF KnownDirs, IsStaging
  <2>5. KnownFiles'
    <3> SUFFICES ASSUME NEW f \in DOMAIN files'
                 PROVE  /\ f = <<f[1], f[2]>> /\ f[1] \in dirs'
                        /\ files'[f] = [by |-> files'[f].by, data |-> files'[f].data]
      BY DEF KnownFiles
    <3>1. CASE f = new
      BY <1>1, <2>1, <2>2, <3>1
    <3>2. CASE f # new
      <4>1. f \in DOMAIN files /\ files'[f] = files[f]
        BY <2>2, <3>2
      <4> QED BY <1>1, <4>1 DEF KnownFiles
    <3> QED BY <3>1, <3>2
  <2>6. \A dir : dir # At(kind) => Untouched(dir)
    BY <1>1, <1>3, PutElsewhere
  <2>7. \A q \in Publishers, a \in Nat \ {0} : <<q, a>> # At(kind)
    BY DEF At
  <2>8. Owned'
    BY <2>6, <2>7 DEF Owned, Untouched
  <2>9. InHand(p)'
    <3>1. pc'[p] \in {"returned", "raised"} /\ attempt'[p] >= 1
      BY <1>1 DEF Goto, TypeOK, InHand
    <3> QED BY <3>1 DEF InHand, Unpublished, Published, Before, Staged, Checking
  <2>10. ASSUME NEW q \in Publishers \ {p} PROVE InHand(q)'
    <3>1. pc'[q] = pc[q] /\ attempt'[q] = attempt[q]
      BY <1>1 DEF Goto, TypeOK
    <3>2. pc[q] = "published" => At(Kind(q)) # At(kind)
      <4> SUFFICES ASSUME pc[q] = "published", At(Kind(q)) = At(kind) PROVE FALSE
        OBVIOUS
      <4>1. Kind(q) = kind
        BY DEF At
      <4>2. \A n \in Whole(kind) : files[<<At(kind), n>>].by = q
        BY <4>1 DEF InHand, Published
      <4>3. PICK n : n \in Whole(kind)
        BY PayloadNames
      <4>4. files[<<At(kind), n>>].by = p
        BY <2>1, <4>3
      <4>5. files[<<At(kind), n>>].by = q
        BY <4>2, <4>3
      <4> QED BY <4>4, <4>5
    <3>3. CASE pc[q] = "idle"
      BY <3>1, <3>3 DEF InHand, Unpublished, Published, Before, Staged, Checking
    <3>4. CASE pc[q] # "idle"
      <4>1. Untouched(Staging(q))
        BY <2>6, <3>4, StagingIsOnesOwn DEF InHand
      <4> QED BY <2>6, <3>1, <3>2, <4>1, Frame DEF InHand, Published
    <3> QED BY <3>3, <3>4
  <2> QED BY <2>3, <2>4, <2>5, <2>8, <2>9, <2>10
<1> QED BY <1>1, <1>2, <1>3

\* What is done to the files from outside changes neither who wrote a product's
\* files nor which there are.
LEMMA TamperedUntouched ==
    ASSUME KnownFiles, Tampered, NEW dir, dir # At("coordinator")
    PROVE  Untouched(dir)
<1>1. dirs' = dirs
  BY DEF Tampered
<1>2. CASE \E f \in {Events, <<At("perfetto"), "trace">>} \cap DOMAIN files :
             files' = [files EXCEPT ![f].data = @ + 1]
  <2>1. PICK f \in DOMAIN files : files' = [files EXCEPT ![f].data = @ + 1]
    BY <1>2
  <2>2. DOMAIN files' = DOMAIN files /\ \A g \in DOMAIN files \ {f} : files'[g] = files[g]
    BY <2>1
  <2>3. files'[f].by = files[f].by
    BY <2>1 DEF KnownFiles
  <2> QED BY <1>1, <2>2, <2>3 DEF Untouched
<1>3. CASE files' = [g \in DOMAIN files \cup {Deferred} |->
                       IF g \in DOMAIN files THEN files[g] ELSE [by |-> "run", data |-> 0]]
  <2>1. \A n : <<dir, n>> # Deferred
    BY DEF Deferred
  <2> QED BY <1>1, <1>3, <2>1 DEF Untouched
<1> QED BY <1>2, <1>3 DEF Tampered

LEMMA TamperedInv == ASSUME Inv, Tampered PROVE Inv'
<1> USE PublisherKinds DEF Inv
<1>1. UNCHANGED <<dirs, pc, attempt>>
  BY DEF Tampered
<1>2. TypeOK' /\ KnownDirs'
  BY <1>1 DEF TypeOK, KnownDirs, IsStaging
<1>3. KnownFiles'
  <2>1. CASE \E f \in {Events, <<At("perfetto"), "trace">>} \cap DOMAIN files :
               files' = [files EXCEPT ![f].data = @ + 1]
    <3>1. PICK f \in DOMAIN files : files' = [files EXCEPT ![f].data = @ + 1]
      BY <2>1
    <3>2. DOMAIN files' = DOMAIN files /\ \A g \in DOMAIN files \ {f} : files'[g] = files[g]
      BY <3>1
    <3>3. files[f] = [by |-> files[f].by, data |-> files[f].data]
      BY DEF KnownFiles
    <3>4. files'[f] = [files[f] EXCEPT !.data = files[f].data + 1]
      BY <3>1
    <3>5. files'[f] = [by |-> files[f].by, data |-> files[f].data + 1]
      BY <3>3, <3>4
    <3> QED BY <1>1, <3>2, <3>5 DEF KnownFiles
  <2>2. CASE files' = [g \in DOMAIN files \cup {Deferred} |->
                         IF g \in DOMAIN files THEN files[g] ELSE [by |-> "run", data |-> 0]]
    BY <1>1, <2>2 DEF KnownFiles, KnownDirs, Deferred, Sources
  <2> QED BY <2>1, <2>2 DEF Tampered
<1>4. \A q \in Publishers, a \in Nat \ {0} : <<q, a>> # At("coordinator")
  BY DEF At
<1>5. Owned'
  BY <1>4, TamperedUntouched DEF Owned, Untouched
<1>6. ASSUME NEW q \in Publishers PROVE InHand(q)'
  <2>1. At(Kind(q)) # At("coordinator")
    BY DEF At, Kinds
  <2>2. CASE pc[q] = "idle"
    BY <1>1, <2>2 DEF InHand, Unpublished, Published, Before, Staged, Checking
  <2>3. CASE pc[q] # "idle"
    <3>1. Staging(q) # At("coordinator")
      BY <2>3, StagingIsOnesOwn DEF InHand
    <3>2. Untouched(Staging(q)) /\ Untouched(At(Kind(q)))
      BY <2>1, <3>1, TamperedUntouched
    <3> QED BY <1>1, <3>2, Frame DEF InHand, Published
  <2> QED BY <2>2, <2>3
<1> QED BY <1>2, <1>3, <1>5, <1>6

LEMMA QuietSteps ==
    ASSUME Inv, NEW p \in Publishers,
           Read(p) \/ CheckCloseout(p) \/ ReadTrace(p) \/ MatchTrace(p) \/ VerifyStaging(p)
             \/ CheckInputs(p) \/ Fails(p) \/ Dies(p)
    PROVE  Inv'
<1>1. CASE Read(p)
  <2>1. pc[p] = "read" /\ Goto(p, "closeout") /\ UNCHANGED <<dirs, files, attempt>>
    BY <1>1 DEF Read
  <2> QED BY <2>1, QuietInv DEF Follows, Before
<1>2. CASE CheckCloseout(p) \/ ReadTrace(p) \/ MatchTrace(p)
  <2>1. PICK s \in {"trace", "match", "absent", "raised"} :
           pc[p] \in Before /\ Goto(p, s) /\ UNCHANGED <<dirs, files, attempt>>
    BY <1>2 DEF CheckCloseout, ReadTrace, MatchTrace, Before
  <2> QED BY <2>1, QuietInv DEF Follows, Before
<1>3. CASE VerifyStaging(p) \/ CheckInputs(p)
  <2>1. /\ pc[p] \in Checking /\ UNCHANGED <<dirs, files, attempt>>
        /\ Goto(p, "inputs") \/ Goto(p, "rename") \/ GivesUp(p)
    BY <1>3 DEF VerifyStaging, CheckInputs, Checking
  <2>2. CASE GivesUp(p)
    BY <2>1, <2>2, GivesUpInv DEF Staged
  <2>3. CASE Goto(p, "inputs") \/ Goto(p, "rename")
    BY <2>1, <2>3, QuietInv DEF Follows, Checking
  <2> QED BY <2>1, <2>2, <2>3
<1>4. CASE Fails(p)
  <2>1. /\ UNCHANGED <<dirs, files, attempt>>
        /\ \/ pc[p] \in Staged /\ GivesUp(p)
           \/ pc[p] # "idle" /\ Goto(p, "raised")
    BY <1>4 DEF Fails, Staged, Checking
  <2> QED BY <2>1, QuietInv, GivesUpInv DEF Follows
<1>5. CASE Dies(p)
  <2>1. pc[p] # "idle" /\ Goto(p, "dead") /\ UNCHANGED <<dirs, files, attempt>>
    BY <1>5 DEF Dies
  <2> QED BY <2>1, QuietInv DEF Follows
<1> QED BY <1>1, <1>2, <1>3, <1>4, <1>5

LEMMA NextInv == Inv /\ [Next]_vars => Inv'
<1> SUFFICES ASSUME Inv, [Next]_vars PROVE Inv'
  OBVIOUS
<1>1. CASE UNCHANGED vars
  <2>1. UNCHANGED <<dirs, files, pc, attempt>>
    BY <1>1 DEF vars
  <2>2. TypeOK' /\ KnownDirs' /\ KnownFiles' /\ Owned'
    BY <2>1 DEF Inv, TypeOK, KnownDirs, IsStaging, KnownFiles, Owned
  <2>3. \A q \in Publishers : InHand(q)'
    BY <2>1 DEF Inv, InHand, Unpublished, Published, Holds, Staging
  <2> QED BY <2>2, <2>3 DEF Inv
<1>2. CASE Tampered
  BY <1>2, TamperedInv
<1>3. ASSUME NEW p \in Publishers, Start(p) \/ Step(p) \/ Fails(p) \/ Dies(p) PROVE Inv'
  BY <1>3, StartInv, MakeStagingInv, WritePayloadInv, WriteManifestInv, ValidateInv, RenameInv,
     VerifyPublishedInv, RemoveStagingInv, QuietSteps DEF Step
<1> QED BY <1>1, <1>2, <1>3 DEF Next

\* Every staging directory is its owner's, and holds at each step what that step
\* has written (publication.py: publish_bundle, converter.py: _publish).
THEOREM StagingIsOwned == Spec => []Inv
BY InitInv, NextInv, PTL DEF Spec

------------------------------------------------------------------------------
(* The outputs, as PublishedOnce sees them.                                  *)

Shown == [k \in Kinds |-> [n \in Names(At(k)) |-> files[<<At(k), n>>].by]]

LEMMA ShownUntouched ==
    ASSUME KnownFiles, KnownFiles', NEW k \in Kinds, Untouched(At(k))
    PROVE  Shown'[k] = Shown[k]
<1>1. Names(At(k))' = Names(At(k))
  <2>1. ASSUME NEW n PROVE n \in Names(At(k))' <=> n \in Names(At(k))
    <3>1. n \in Names(At(k)) <=> <<At(k), n>> \in DOMAIN files
      BY NamesOf
    <3>2. n \in Names(At(k))' <=> <<At(k), n>> \in DOMAIN files'
      BY DEF KnownFiles, Names
    <3> QED BY <3>1, <3>2 DEF Untouched
  <2> QED BY <2>1
<1>2. \A n \in Names(At(k)) : files'[<<At(k), n>>].by = files[<<At(k), n>>].by
  BY NamesOf DEF Untouched
<1> QED BY <1>1, <1>2 DEF Shown

\* No step but the rename of a publisher whose output is not there touches an output.
LEMMA OutputsUntouched ==
    ASSUME Inv, Next, ~ \E p \in Publishers : Rename(p) /\ At(Kind(p)) \notin dirs
    PROVE  \A k \in Kinds : Untouched(At(k))
<1> SUFFICES ASSUME NEW k \in Kinds PROVE Untouched(At(k))
  OBVIOUS
<1> USE PublisherKinds DEF Inv
<1>1. CASE Tampered
  <2>1. At(k) # At("coordinator")
    BY DEF At, Kinds
  <2> QED BY <1>1, <2>1, TamperedUntouched
<1>2. CASE UNCHANGED <<dirs, files>>
  BY <1>2 DEF Untouched
<1>3. ASSUME NEW p \in Publishers, Start(p) \/ Step(p) \/ Fails(p) \/ Dies(p)
      PROVE  Untouched(At(k))
  <2>1. CASE \/ Start(p) \/ Read(p) \/ CheckCloseout(p) \/ ReadTrace(p) \/ MatchTrace(p)
             \/ VerifyStaging(p) \/ CheckInputs(p) \/ Fails(p) \/ Dies(p)
    <3>1. UNCHANGED <<dirs, files>>
      BY <2>1 DEF Start, Read, CheckCloseout, ReadTrace, MatchTrace, VerifyStaging, CheckInputs,
                  Fails, Dies
    <3> QED BY <1>2, <3>1
  <2>2. CASE MakeStaging(p)
    <3>1. UNCHANGED files /\ (dirs' = dirs \/ dirs' = dirs \cup {Staging(p)}) /\ pc[p] = "absent"
      BY <2>2 DEF MakeStaging
    <3>2. Staging(p) # At(k)
      BY <3>1, StagingIsOnesOwn DEF InHand
    <3> QED BY <3>1, <3>2 DEF Untouched
  <2>3. CASE WritePayload(p) \/ WriteManifest(p) \/ Validate(p)
    <3>1. /\ UNCHANGED dirs /\ pc[p] # "idle"
          /\ \/ UNCHANGED files
             \/ \E name, data : Put(<<Staging(p), name>>, p, data)
      <4>1. CASE WritePayload(p)
        BY <4>1 DEF WritePayload
      <4>2. CASE WriteManifest(p)
        BY <4>2 DEF WriteManifest
      <4>3. CASE Validate(p)
        BY <4>3 DEF Validate
      <4> QED BY <2>3, <4>1, <4>2, <4>3
    <3>2. Staging(p) # At(k)
      BY <3>1, StagingIsOnesOwn DEF InHand
    <3> QED BY <1>2, <3>1, <3>2, PutElsewhere
  <2>4. CASE Rename(p)
    BY <1>2, <1>3, <2>4 DEF Rename
  <2>5. CASE RemoveStaging(p)
    <3>1. Staging(p) # At(k)
      BY <2>5, StagingIsOnesOwn DEF InHand, RemoveStaging
    <3> QED BY <2>5, <3>1 DEF Untouched, RemoveStaging
  <2>6. CASE VerifyPublished(p)
    <3> DEFINE new == <<At(Kind(p)), D!ValidationName>>
    <3>1. /\ UNCHANGED dirs /\ pc[p] = "published"
          /\ UNCHANGED files \/ \E data : Put(new, p, data)
      BY <2>6 DEF VerifyPublished
    <3>2. CASE UNCHANGED files
      BY <1>2, <3>1, <3>2
    <3>3. ASSUME NEW data, Put(new, p, data) PROVE Untouched(At(k))
      <4>1. CASE k # Kind(p)
        <5>1. At(k) # At(Kind(p))
          BY <4>1 DEF At
        <5> QED BY <3>1, <3>3, <5>1, PutElsewhere
      <4>2. CASE k = Kind(p)
        <5>1. /\ Holds(At(k), Whole(k)) /\ \A n \in Whole(k) : files[<<At(k), n>>].by = p
          BY <3>1, <4>2 DEF InHand, Published
        <5>2. new \in DOMAIN files /\ files[new].by = p
          <6>1. D!ValidationName \in Whole(k)
            BY PayloadNames
          <6> QED BY <4>2, <5>1, <6>1 DEF Holds
        <5>3. /\ DOMAIN files' = DOMAIN files \cup {new}
              /\ files'[new] = [by |-> p, data |-> data]
              /\ \A f \in DOMAIN files \ {new} : files'[f] = files[f]
          BY <3>3, PutOne
        <5>4. \A f \in DOMAIN files : files'[f].by = files[f].by
          BY <5>2, <5>3
        <5> HIDE DEF new
        <5> QED BY <3>1, <5>2, <5>3, <5>4 DEF Untouched
      <4> QED BY <4>1, <4>2
    <3> QED BY <3>1, <3>2, <3>3
  <2> QED BY <1>3, <2>1, <2>2, <2>3, <2>4, <2>5, <2>6 DEF Step
<1> QED BY <1>1, <1>3 DEF Next

LEMMA RenamePublishes ==
    ASSUME Inv, Inv', NEW p \in Publishers, Rename(p), At(Kind(p)) \notin dirs
    PROVE  /\ Shown[Kind(p)] = Once!Nothing
           /\ Shown' = [Shown EXCEPT ![Kind(p)] = [n \in Whole(Kind(p)) |-> p]]
<1> USE PublisherKinds DEF Inv
<1> DEFINE to == At(Kind(p))
<1>1. /\ \A n : <<to, n>> \notin DOMAIN files
      /\ Holds(to, Whole(Kind(p)))'
      /\ \A n \in Whole(Kind(p)) : files'[<<to, n>>].by = p
      /\ \A dir : dir \notin {to, Staging(p)} => Untouched(dir)
  BY RenameAppears
<1>2. attempt[p] >= 1
  BY DEF Rename, InHand
<1>3. Names(to) = {}
  BY <1>1, NamesOf
<1>4. Names(to)' = Whole(Kind(p))
  <2>1. ASSUME NEW n PROVE n \in Names(to)' <=> <<to, n>> \in DOMAIN files'
    BY DEF KnownFiles, Names
  <2>2. \A n : <<to, n>> \in DOMAIN files' <=> n \in Whole(Kind(p))
    BY <1>1 DEF Holds
  <2> QED BY <2>1, <2>2
<1>5. Shown[Kind(p)] = Once!Nothing
  BY <1>3 DEF Shown, Once!Nothing
<1>6. Shown'[Kind(p)] = [n \in Whole(Kind(p)) |-> p]
  BY <1>1, <1>4 DEF Shown
<1>7. ASSUME NEW k \in Kinds \ {Kind(p)} PROVE Shown'[k] = Shown[k]
  <2>1. At(k) \notin {to, Staging(p)}
    BY <1>2, StagingIsOnesOwn DEF At
  <2> QED BY <1>1, <2>1, ShownUntouched
<1> QED BY <1>5, <1>6, <1>7 DEF Shown

\* A step publishes an output whole, or changes none.
LEMMA StepRefines == Inv /\ Inv' /\ [Next]_vars => [Once!Next]_Shown
<1> SUFFICES ASSUME Inv, Inv', [Next]_vars PROVE Once!Next \/ Shown' = Shown
  OBVIOUS
<1>1. CASE UNCHANGED vars
  BY <1>1 DEF vars, Shown, Names
<1>2. CASE \E p \in Publishers : Rename(p) /\ At(Kind(p)) \notin dirs
  <2>1. PICK p \in Publishers : Rename(p) /\ At(Kind(p)) \notin dirs
    BY <1>2
  <2>2. Once!Publish(Kind(p), p)
    BY <2>1, RenamePublishes DEF Once!Publish, Shown
  <2> QED BY <2>2, PublisherKinds DEF Once!Next
<1>3. CASE Next /\ ~ \E p \in Publishers : Rename(p) /\ At(Kind(p)) \notin dirs
  <2>1. \A k \in Kinds : Shown'[k] = Shown[k]
    BY <1>3, OutputsUntouched, ShownUntouched DEF Inv
  <2> QED BY <2>1 DEF Shown
<1> QED BY <1>1, <1>2, <1>3

LEMMA InitRefines == Init => Once!Init
<1> SUFFICES ASSUME Init PROVE Once!Init
  OBVIOUS
<1>1. ASSUME NEW k \in Kinds PROVE Names(At(k)) = {}
  BY DEF Init, Names, At, Events, Kinds
<1> QED BY <1>1 DEF Once!Init, Once!Nothing

\* Every output directory appears whole, in one step, as the work of one publisher,
\* and is never replaced (support/publication.py: publish_directory_no_replace).
THEOREM OutputsArePublishedOnce == Spec => PublishedOnce
<1>1. Spec => []Inv
  BY StagingIsOwned
<1>2. Inv /\ Inv' /\ [Next]_vars => [Once!Next]_(Shown)
  BY StepRefines
<1> QED BY <1>1, <1>2, InitRefines, PTL DEF Spec, PublishedOnce, Once!Spec, Shown

LEMMA EndsWithoutStaging ==
    ASSUME Inv, [Next]_vars, NEW p \in Publishers, pc[p] # pc'[p],
           pc'[p] \in {"raised", "returned"}, Kind(p) # "recovery"
    PROVE  Staging(p) \notin dirs'
<1>1. PICK q \in Publishers : Start(q) \/ Step(q) \/ Fails(q) \/ Dies(q)
  BY DEF Next, vars, Tampered
<1>2. q = p
  BY <1>1 DEF Start, Step, Fails, Dies, Read, CheckCloseout, ReadTrace, MatchTrace, MakeStaging,
       WritePayload, WriteManifest, Validate, VerifyStaging, CheckInputs, Rename, VerifyPublished,
       RemoveStaging, Goto, GivesUp, Inv, TypeOK
<1> USE DEF Inv
<1>3. pc'[p] # "clean"
  OBVIOUS
<1>4. CASE RemoveStaging(p)
  BY <1>4 DEF RemoveStaging
<1>5. CASE pc[p] \in Before \cup {"published"} /\ dirs' = dirs
  BY <1>5 DEF InHand
<1>6. ~GivesUp(p)
  BY DEF GivesUp, Goto, TypeOK
<1>7. CASE ~RemoveStaging(p)
  <2>1. pc[p] \in Before \cup {"published"} /\ dirs' = dirs
    BY <1>1, <1>2, <1>6, <1>7
       DEF Start, Step, Fails, Dies, Read, CheckCloseout, ReadTrace, MatchTrace, MakeStaging,
           WritePayload, WriteManifest, Validate, VerifyStaging, CheckInputs, Rename,
           VerifyPublished, Goto, TypeOK, Before
  <2> QED BY <1>5, <2>1
<1> QED BY <1>4, <1>7

\* An attempt that ends, published or not, leaves no staging directory, unless the
\* publisher died or is the closeout (publication.py: the finally block).
THEOREM StagingIsRemoved == Spec => OnlyDeathLeavesStaging
<1>1. Inv /\ [Next]_vars =>
        [\A p \in Publishers :
           pc[p] # pc'[p] /\ pc'[p] \in {"raised", "returned"} /\ Kind(p) # "recovery"
               => Staging(p) \notin dirs']_vars
  BY EndsWithoutStaging
<1> QED BY <1>1, StagingIsOwned, PTL DEF Spec, OnlyDeathLeavesStaging

------------------------------------------------------------------------------
(* All products speak of one run.  The closeout lists the events as they are *)
(* when its manifest is made, and a reader has seen them as they were when    *)
(* it began: that is the same unless they changed in between, and a reader   *)
(* that began before the closeout was there began out of turn.  With at most  *)
(* two such faults the trace and the report cannot both be behind.            *)

HybridEvents == <<"hybrid", "events">>
Recorded == files[Events].data
Listed(manifest) == manifest.entries[HybridEvents].data
Trace(name) == files[<<At("perfetto"), name>>].data
Report == files[<<At("overview"), "overview_json">>].data

Working == {"write", "manifest", "validate"} \cup Checking
Matched == {"absent"} \cup Working
Reads(p) == Kind(p) # "recovery" /\ pc[p] \in {"closeout", "trace", "match"} \cup Matched

ListsEvents(manifest) == HybridEvents \in DOMAIN manifest.entries /\ Listed(manifest) \in 0..Recorded
EventsCounted ==
    /\ faults \in Nat /\ loaded = [p \in Publishers |-> loaded[p]]
    /\ Events \in DOMAIN files /\ Recorded \in 0..faults
OutputsWhole == \A k \in Kinds : At(k) \in dirs => Holds(At(k), Whole(k))

\* What the outputs say of each other.
CloseoutListsEvents == At("recovery") \in dirs => ListsEvents(RunIdentity)
TraceIsOfRun ==
    At("perfetto") \in dirs =>
       /\ At("recovery") \in dirs
       /\ Trace("conversion_manifest").run = RunIdentity /\ Trace("trace") \in Nat
ReportIsOfRun ==
    At("overview") \in dirs =>
       /\ At("recovery") \in dirs
       /\ Report.trace.data = Report.events
       /\ faults <= 2 => Report.events = Listed(RunIdentity)
Outputs == CloseoutListsEvents /\ TraceIsOfRun /\ ReportIsOfRun

\* What a publisher has read and written.
HasRead(p) ==
    Reads(p) =>
       /\ loaded[p] = [events |-> loaded[p].events, run |-> loaded[p].run, trace |-> loaded[p].trace]
       /\ loaded[p].events \in 0..Recorded
       /\ pc[p] # "closeout" =>
             /\ At("recovery") \in dirs /\ loaded[p].run = RunIdentity
             /\ loaded[p].events <= Listed(RunIdentity)
       /\ Kind(p) = "overview" /\ pc[p] \in Matched =>
             /\ loaded[p].trace["trace"].data = loaded[p].events
             /\ faults <= 2 => loaded[p].events = Listed(RunIdentity)
HasWritten(p) ==
    /\ pc[p] \in Working => \A n \in Written(Kind(p)) :
          <<Staging(p), n>> \in DOMAIN files => files[<<Staging(p), n>>].data = Payload(p, n)
    /\ Kind(p) = "recovery" /\ pc[p] \in {"validate"} \cup Checking =>
          ListsEvents(files[<<Staging(p), D!ManifestName>>].data)
    /\ pc[p] = "returned" => At(Kind(p)) \in dirs

\* Without a closeout every reader began out of turn, and every change is a fault.
Started(p) == IF attempt[p] = 0 THEN 0 ELSE 1
EarlyIsAFault ==
    At("recovery") \notin dirs =>
       \A c, o \in Publishers : Kind(c) = "perfetto" /\ Kind(o) = "overview" =>
          Started(c) + Started(o) + Recorded <= faults

\* Not both a report and its trace are of events before those of the closeout.
ReadOld(p) == Reads(p) /\ loaded[p].events < Listed(RunIdentity)
NotBothOld ==
    faults <= 2 /\ At("recovery") \in dirs =>
       \A o \in Publishers : Kind(o) = "overview" /\ ReadOld(o) =>
          /\ \A c \in Publishers : Kind(c) = "perfetto" => ~ReadOld(c)
          /\ At("perfetto") \in dirs => Trace("trace") >= Listed(RunIdentity)

OneRun ==
    /\ EventsCounted /\ OutputsWhole /\ Outputs /\ EarlyIsAFault /\ NotBothOld
    /\ \A p \in Publishers : HasRead(p) /\ HasWritten(p)

LEMMA InitOneRun == Init => OneRun
<1> SUFFICES ASSUME Init PROVE OneRun
  OBVIOUS
<1>1. \A k \in Kinds : At(k) \notin dirs
  BY DEF Init, At, Kinds, Sources
<1>2. EventsCounted
  BY DEF Init, EventsCounted, Recorded, Events, At
<1>3. EarlyIsAFault
  BY <1>2 DEF Init, EarlyIsAFault, Started, EventsCounted, Recorded, Events, At
<1>4. \A p \in Publishers : HasRead(p) /\ HasWritten(p)
  BY DEF Init, HasRead, HasWritten, Reads, Working, Matched, Checking
<1> QED BY <1>1, <1>2, <1>3, <1>4
        DEF OneRun, OutputsWhole, Outputs, CloseoutListsEvents, TraceIsOfRun, ReportIsOfRun,
            NotBothOld, Kinds

\* The events are listed in every closeout, as they are when its manifest is made.
LEMMA EventsAreListed ==
    ASSUME Events \in DOMAIN files, NEW dir
    PROVE  /\ HybridEvents \in DOMAIN Inventoried("recovery", dir)
           /\ Inventoried("recovery", dir)[HybridEvents] = files[Events]
<1> DEFINE at == Roots("recovery", dir)
           keys == {<<root, f[2]>> : root \in DOMAIN at, f \in DOMAIN files}
           listed == {k \in keys \ D!DetachedOutputs("recovery") : <<at[k[1]], k[2]>> \in DOMAIN files}
<1>1. Inventoried("recovery", dir) = [k \in listed |-> files[<<at[k[1]], k[2]>>]]
  BY DEF Inventoried, D!Inventory
<1>2. "hybrid" \in DOMAIN at /\ at["hybrid"] = At("hybrid")
  BY DEF Roots, RecoveryRoots, Sources
<1>3. HybridEvents \in keys
  BY <1>2 DEF HybridEvents, Events
<1>4. HybridEvents \notin D!DetachedOutputs("recovery")
  BY DEF HybridEvents, D!DetachedOutputs
<1>5. HybridEvents \in listed /\ <<at[HybridEvents[1]], HybridEvents[2]>> = Events
  BY <1>2, <1>3, <1>4 DEF HybridEvents, Events
<1> HIDE DEF listed, at
<1> QED BY <1>1, <1>5

\* A closeout that holds lists the events as they are now.
LEMMA CloseoutIsNow ==
    ASSUME Inv, EventsCounted, CloseoutHolds
    PROVE  At("recovery") \in dirs /\ Listed(RunIdentity) = Recorded
<1> DEFINE entries == RunIdentity.entries
           inventory == Inventoried("recovery", At("recovery"))
           found == D!Mismatches(entries, inventory)
<1>1. D!AcceptDeferred(D!ValidateManifest(RunIdentity, inventory), <<"coordinator", "deferred">>).valid
  BY DEF CloseoutHolds, RunIdentity
<1>2. found = {} \/ found = {<<"unexpected", <<"coordinator", "deferred">>>>}
  BY <1>1 DEF D!AcceptDeferred, D!ValidateManifest
<1>3. <<"unexpected", HybridEvents>> \notin found /\ <<"changed", HybridEvents>> \notin found
  <2>1. <<"unexpected", HybridEvents>> # <<"unexpected", <<"coordinator", "deferred">>>>
    BY DEF HybridEvents
  <2>2. <<"changed", HybridEvents>> # <<"unexpected", <<"coordinator", "deferred">>>>
    OBVIOUS
  <2> QED BY <1>2, <2>1, <2>2
<1>4. HybridEvents \in DOMAIN inventory /\ inventory[HybridEvents] = files[Events]
  BY EventsAreListed DEF EventsCounted
<1>5. HybridEvents \in DOMAIN entries
  BY <1>3, <1>4 DEF D!Mismatches
<1>6. entries[HybridEvents] = inventory[HybridEvents]
  BY <1>3, <1>4, <1>5 DEF D!Mismatches
<1>7. <<At("recovery"), D!ManifestName>> \in DOMAIN files
  BY PayloadNames DEF CloseoutHolds, Whole
<1>8. At("recovery") \in dirs
  BY <1>7 DEF Inv, KnownFiles
<1> QED BY <1>4, <1>6, <1>8 DEF Listed, Recorded

\* What a step leaves of a file, and what a publisher's step leaves of all files but
\* its own and the closeout's report.
SameFile(f) ==
    /\ f \in DOMAIN files' <=> f \in DOMAIN files
    /\ f \in DOMAIN files => files'[f] = files[f]
KeepsOthers(p) ==
    /\ \A k \in Kinds : At(k) \in dirs' <=> At(k) \in dirs
    /\ \A dir, n : dir # Staging(p) /\ <<dir, n>> # <<At("recovery"), D!ValidationName>> =>
          SameFile(<<dir, n>>)

LEMMA PutGives ==
    ASSUME NEW f, NEW p, NEW data, Put(f, p, data)
    PROVE  files'[f] = [by |-> p, data |-> data]
BY DEF Put

LEMMA PutKeepsOthers ==
    ASSUME NEW dir, NEW name, NEW p, NEW data, Put(<<dir, name>>, p, data),
           NEW other, NEW n, <<other, n>> # <<dir, name>>
    PROVE  SameFile(<<other, n>>)
<1> DEFINE f == <<other, n>>
           g == <<dir, name>>
<1> SUFFICES SameFile(f)
  OBVIOUS
<1>1. f # g /\ Put(g, p, data)
  OBVIOUS
<1> HIDE DEF f, g
<1> QED BY <1>1 DEF Put, SameFile

LEMMA StepKeepsOthers ==
    ASSUME Inv, NEW p \in Publishers, Start(p) \/ Step(p) \/ Fails(p) \/ Dies(p),
           ~(Rename(p) /\ At(Kind(p)) \notin dirs)
    PROVE  KeepsOthers(p)
<1> USE PublisherKinds DEF Inv
<1>1. CASE UNCHANGED <<dirs, files>>
  BY <1>1 DEF KeepsOthers, SameFile
<1>2. CASE MakeStaging(p)
  <2>1. UNCHANGED files /\ (dirs' = dirs \/ dirs' = dirs \cup {Staging(p)}) /\ pc[p] = "absent"
    BY <1>2 DEF MakeStaging
  <2>2. \A n : Staging(p) # At(n)
    BY <2>1, StagingIsOnesOwn DEF InHand
  <2> QED BY <2>1, <2>2 DEF KeepsOthers, SameFile
<1>3. CASE WritePayload(p) \/ WriteManifest(p) \/ Validate(p)
  <2>1. /\ UNCHANGED dirs
        /\ UNCHANGED files \/ \E name, data : Put(<<Staging(p), name>>, p, data)
    <3>1. CASE WritePayload(p)
      BY <3>1 DEF WritePayload
    <3>2. CASE WriteManifest(p)
      BY <3>2 DEF WriteManifest
    <3>3. CASE Validate(p)
      BY <3>3 DEF Validate
    <3> QED BY <1>3, <3>1, <3>2, <3>3
  <2>2. ASSUME NEW name, NEW data, Put(<<Staging(p), name>>, p, data) PROVE KeepsOthers(p)
    <3>1. ASSUME NEW dir, NEW n, dir # Staging(p) PROVE SameFile(<<dir, n>>)
      <4>1. <<dir, n>> # <<Staging(p), name>>
        BY <3>1
      <4> QED BY <2>2, <4>1, PutKeepsOthers
    <3> QED BY <2>1, <3>1 DEF KeepsOthers
  <2> QED BY <1>1, <2>1, <2>2
<1>4. CASE VerifyPublished(p)
  <2>1. /\ UNCHANGED dirs
        /\ \/ UNCHANGED files
           \/ \E data : Put(<<At("recovery"), D!ValidationName>>, p, data)
    BY <1>4 DEF VerifyPublished
  <2>2. ASSUME NEW data, Put(<<At("recovery"), D!ValidationName>>, p, data) PROVE KeepsOthers(p)
    <3>1. ASSUME NEW dir, NEW n, <<dir, n>> # <<At("recovery"), D!ValidationName>>
          PROVE  SameFile(<<dir, n>>)
      BY <2>2, <3>1, PutKeepsOthers
    <3> QED BY <2>1, <3>1 DEF KeepsOthers
  <2> QED BY <1>1, <2>1, <2>2
<1>5. CASE RemoveStaging(p)
  <2>1. /\ pc[p] = "clean" /\ dirs' = dirs \ {Staging(p)}
        /\ files' = [f \in {f \in DOMAIN files : f[1] # Staging(p)} |-> files[f]]
    BY <1>5 DEF RemoveStaging
  <2>2. \A n : Staging(p) # At(n)
    BY <2>1, StagingIsOnesOwn DEF InHand
  <2> QED BY <2>1, <2>2 DEF KeepsOthers, SameFile
<1>6. CASE \/ Start(p) \/ Read(p) \/ CheckCloseout(p) \/ ReadTrace(p) \/ MatchTrace(p)
           \/ VerifyStaging(p) \/ CheckInputs(p) \/ Rename(p) \/ Fails(p) \/ Dies(p)
  <2>1. UNCHANGED <<dirs, files>>
    BY <1>6 DEF Start, Read, CheckCloseout, ReadTrace, MatchTrace, VerifyStaging, CheckInputs, Rename,
                Fails, Dies
  <2> QED BY <1>1, <2>1
<1> QED BY <1>2, <1>3, <1>4, <1>5, <1>6 DEF Step

\* The rename moves what was staged, and touches nothing else.
LEMMA RenameMoves ==
    ASSUME Inv, NEW p \in Publishers, Rename(p), At(Kind(p)) \notin dirs
    PROVE  /\ \A n \in Whole(Kind(p)) :
                 files'[<<At(Kind(p)), n>>] = files[<<Staging(p), n>>]
           /\ \A dir, n : dir \notin {At(Kind(p)), Staging(p)} => SameFile(<<dir, n>>)
           /\ \A k \in Kinds : At(k) \in dirs' <=> At(k) \in dirs \/ k = Kind(p)
<1> USE DEF Inv
<1> DEFINE to == At(Kind(p))
           gone == {f \in DOMAIN files : f[1] = Staging(p)}
           new == {<<to, f[2]>> : f \in gone}
<1>1. /\ pc[p] = "rename" /\ dirs' = (dirs \ {Staging(p)}) \cup {to}
      /\ files' = [f \in (DOMAIN files \ gone) \cup new |->
                      IF f \in new THEN files[<<Staging(p), f[2]>>] ELSE files[f]]
  BY DEF Rename, Moved
<1>2. \A n : Staging(p) # At(n)
  BY <1>1, StagingIsOnesOwn DEF InHand
<1>3. ASSUME NEW n \in Whole(Kind(p)) PROVE <<to, n>> \in new
  <2>1. <<Staging(p), n>> \in gone
    BY <1>1 DEF InHand, Unpublished, Checking, Holds
  <2>2. <<to, <<Staging(p), n>>[2]>> \in new
    BY <2>1
  <2> QED BY <2>2
<1>4. \A dir, n : dir # to => <<dir, n>> \notin new
  OBVIOUS
<1>5. \A k \in Kinds : At(k) = to => k = Kind(p)
  BY DEF At
<1> HIDE DEF new
<1>6. \A n \in Whole(Kind(p)) : files'[<<to, n>>] = files[<<Staging(p), n>>]
  BY <1>1, <1>3
<1>7. ASSUME NEW dir, NEW n, dir \notin {to, Staging(p)} PROVE SameFile(<<dir, n>>)
  <2>1. <<dir, n>> \notin new /\ <<dir, n>> \notin gone
    BY <1>4, <1>7
  <2> QED BY <1>1, <2>1 DEF SameFile
<1> QED BY <1>1, <1>2, <1>5, <1>6, <1>7

\* An edit changes the events or the published trace, and only upwards.
LEMMA TamperedKeeps ==
    ASSUME Inv, Tampered
    PROVE  /\ \A f : f \notin {Events, <<At("perfetto"), "trace">>, Deferred} => SameFile(f)
           /\ \A f \in {Events, <<At("perfetto"), "trace">>} :
                 /\ f \in DOMAIN files' <=> f \in DOMAIN files
                 /\ f \in DOMAIN files =>
                       files'[f].data = files[f].data \/ files'[f].data = files[f].data + 1
<1> USE DEF Inv
<1>1. CASE \E f \in {Events, <<At("perfetto"), "trace">>} \cap DOMAIN files :
             files' = [files EXCEPT ![f].data = @ + 1]
  <2>1. PICK f \in {Events, <<At("perfetto"), "trace">>} \cap DOMAIN files :
           files' = [files EXCEPT ![f].data = @ + 1]
    BY <1>1
  <2>2. DOMAIN files' = DOMAIN files /\ \A g \in DOMAIN files \ {f} : files'[g] = files[g]
    BY <2>1
  <2>3. files[f] = [by |-> files[f].by, data |-> files[f].data]
    BY DEF KnownFiles
  <2>4. files'[f] = [files[f] EXCEPT !.data = files[f].data + 1]
    BY <2>1
  <2>5. files'[f].data = files[f].data + 1
    BY <2>3, <2>4
  <2> QED BY <2>2, <2>5 DEF SameFile
<1>2. CASE files' = [g \in DOMAIN files \cup {Deferred} |->
                       IF g \in DOMAIN files THEN files[g] ELSE [by |-> "run", data |-> 0]]
  <2>1. Deferred # Events /\ Deferred # <<At("perfetto"), "trace">>
    BY DEF Deferred, Events, At
  <2> QED BY <1>2, <2>1 DEF SameFile
<1> QED BY <1>1, <1>2 DEF Tampered

\* What is published stays as it is, but that the trace and the events may go up.
Grows ==
    /\ faults' \in Nat /\ faults <= faults'
    /\ Recorded' \in Nat /\ Recorded <= Recorded'
    /\ \A k \in Kinds : At(k) \in dirs => At(k) \in dirs'
    /\ At("recovery") \in dirs => RunIdentity' = RunIdentity
    /\ At("perfetto") \in dirs =>
          /\ Trace("conversion_manifest")' = Trace("conversion_manifest")
          /\ Trace("trace") \in Nat =>
                Trace("trace")' \in Nat /\ Trace("trace") <= Trace("trace")'
    /\ At("overview") \in dirs => Report' = Report

LEMMA OutputFiles ==
    ASSUME OutputsWhole
    PROVE  /\ At("recovery") \in dirs => <<At("recovery"), D!ManifestName>> \in DOMAIN files
           /\ At("perfetto") \in dirs =>
                 /\ <<At("perfetto"), "trace">> \in DOMAIN files
                 /\ <<At("perfetto"), "conversion_manifest">> \in DOMAIN files
           /\ At("overview") \in dirs => <<At("overview"), "overview_json">> \in DOMAIN files
<1>1. "trace" \in Whole("perfetto") /\ "conversion_manifest" \in Whole("perfetto")
  <2>1. PerfettoPayloads[1] = "trace" /\ PerfettoPayloads[3] = "conversion_manifest"
        /\ 1 \in DOMAIN PerfettoPayloads /\ 3 \in DOMAIN PerfettoPayloads
    BY DEF PerfettoPayloads
  <2> QED BY <2>1 DEF Whole, Payloads
<1>2. "overview_json" \in Whole("overview")
  <2>1. OverviewPayloads[2] = "overview_json" /\ 2 \in DOMAIN OverviewPayloads
    BY DEF OverviewPayloads
  <2> QED BY <2>1 DEF Whole, Payloads
<1>3. D!ManifestName \in Whole("recovery")
  BY DEF Whole
<1> QED BY <1>1, <1>2, <1>3 DEF OutputsWhole, Holds, Kinds

LEMMA FilesGrow ==
    ASSUME OutputsWhole,
           \A k \in Kinds : At(k) \in dirs => At(k) \in dirs',
           At("recovery") \in dirs => SameFile(<<At("recovery"), D!ManifestName>>),
           At("perfetto") \in dirs => SameFile(<<At("perfetto"), "conversion_manifest">>),
           At("perfetto") \in dirs => SameFile(<<At("perfetto"), "trace">>),
           At("overview") \in dirs => SameFile(<<At("overview"), "overview_json">>),
           Events \in DOMAIN files, Recorded \in Nat, SameFile(Events),
           faults \in Nat, faults' = faults \/ faults' = faults + 1
    PROVE  Grows /\ Recorded' = Recorded
BY OutputFiles DEF Grows, SameFile, RunIdentity, Trace, Report, Recorded

\* Only an edit changes the events, and it is a fault.
LEMMA StepGrows ==
    ASSUME Inv, EventsCounted, OutputsWhole, [Next]_vars
    PROVE  /\ Grows /\ EventsCounted'
           /\ Tampered \/ Recorded' = Recorded
<1> USE PublisherKinds DEF Inv, EventsCounted
<1>1. CASE UNCHANGED vars
  BY <1>1 DEF vars, Grows, RunIdentity, Trace, Report, Recorded, Kinds
<1>2. CASE Tampered
  <2>1. /\ faults' = faults + 1 /\ UNCHANGED <<dirs, loaded>>
    BY <1>2 DEF Tampered, Fault
  <2>2. /\ \A f : f \notin {Events, <<At("perfetto"), "trace">>, Deferred} => SameFile(f)
        /\ \A f \in {Events, <<At("perfetto"), "trace">>} :
              /\ f \in DOMAIN files' <=> f \in DOMAIN files
              /\ f \in DOMAIN files =>
                    files'[f].data = files[f].data \/ files'[f].data = files[f].data + 1
    BY <1>2, TamperedKeeps
  <2>3. Events \in DOMAIN files' /\ (Recorded' = Recorded \/ Recorded' = Recorded + 1)
    BY <2>2 DEF Recorded
  <2>4. SameFile(<<At("recovery"), D!ManifestName>>)
    BY <2>2 DEF Events, Deferred, At
  <2>5. SameFile(<<At("perfetto"), "conversion_manifest">>)
    BY <2>2 DEF Events, Deferred, At
  <2>6. SameFile(<<At("overview"), "overview_json">>)
    BY <2>2 DEF Events, Deferred, At
  <2>7. At("perfetto") \in dirs =>
           Trace("trace")' = Trace("trace") \/ Trace("trace")' = Trace("trace") + 1
    BY <2>2, OutputFiles DEF Trace
  <2>8. At("recovery") \in dirs => RunIdentity' = RunIdentity
    BY <2>4, OutputFiles DEF SameFile, RunIdentity
  <2>9. At("perfetto") \in dirs => Trace("conversion_manifest")' = Trace("conversion_manifest")
    BY <2>5, OutputFiles DEF SameFile, Trace
  <2>10. At("overview") \in dirs => Report' = Report
    BY <2>6, OutputFiles DEF SameFile, Report
  <2>11. Grows
    <3> HIDE DEF Inv
    <3>1. Trace("trace") \in Nat /\ At("perfetto") \in dirs =>
             Trace("trace")' \in Nat /\ Trace("trace") <= Trace("trace")'
      BY <2>7
    <3> QED BY <2>1, <2>3, <2>8, <2>9, <2>10, <3>1 DEF Grows
  <2> QED BY <1>2, <2>1, <2>3, <2>11
<1>3. ASSUME NEW p \in Publishers, Start(p) \/ Step(p) \/ Fails(p) \/ Dies(p)
      PROVE  Grows /\ EventsCounted' /\ Recorded' = Recorded
  <2>1. /\ faults' = faults \/ faults' = faults + 1
        /\ loaded' = [q \in Publishers |-> loaded'[q]]
    <3>1. CASE Start(p)
      BY <3>1 DEF Start, Fault
    <3>2. CASE Fails(p) \/ Dies(p)
      BY <3>2 DEF Fails, Dies, Fault
    <3>3. CASE Read(p) \/ CheckCloseout(p) \/ ReadTrace(p) \/ MatchTrace(p)
      BY <3>3 DEF Read, CheckCloseout, ReadTrace, MatchTrace
    <3>4. CASE \/ MakeStaging(p) \/ WritePayload(p) \/ WriteManifest(p) \/ Validate(p)
               \/ VerifyStaging(p) \/ CheckInputs(p) \/ Rename(p) \/ VerifyPublished(p)
               \/ RemoveStaging(p)
      <4>1. UNCHANGED <<loaded, faults>>
        BY <3>4 DEF MakeStaging, WritePayload, WriteManifest, Validate, VerifyStaging,
                    CheckInputs, Rename, VerifyPublished, RemoveStaging
      <4> QED BY <4>1
    <3> QED BY <1>3, <3>1, <3>2, <3>3, <3>4 DEF Step
  <2> DEFINE appears == Rename(p) /\ At(Kind(p)) \notin dirs
  <2>2. /\ \A k \in Kinds : At(k) \in dirs => At(k) \in dirs'
        /\ \A k \in Kinds : \A n : At(k) \in dirs /\ n # D!ValidationName => SameFile(<<At(k), n>>)
        /\ SameFile(Events)
    <3>1. CASE appears
      <4>1. /\ \A dir, n : dir \notin {At(Kind(p)), Staging(p)} => SameFile(<<dir, n>>)
            /\ \A k \in Kinds : At(k) \in dirs' <=> At(k) \in dirs \/ k = Kind(p)
        BY <3>1, RenameMoves
      <4>2. \A n : Staging(p) # At(n)
        BY <3>1, StagingIsOnesOwn DEF InHand, Rename
      <4>3. \A k \in Kinds : At(k) \in dirs => At(k) # At(Kind(p))
        BY <3>1
      <4>4. At("hybrid") # At(Kind(p))
        BY DEF At, Kinds
      <4> QED BY <4>1, <4>2, <4>3, <4>4 DEF Events
    <3>2. CASE ~appears
      <4>1. KeepsOthers(p)
        BY <1>3, <3>2, StepKeepsOthers
      <4>2. CASE \A n : Staging(p) # At(n)
        <5>1. \A k \in Kinds : \A n : n # D!ValidationName => SameFile(<<At(k), n>>)
          BY <4>1, <4>2 DEF KeepsOthers
        <5>2. Events # <<At("recovery"), D!ValidationName>> /\ At("hybrid") # Staging(p)
          BY <4>2 DEF Events, At
        <5> QED BY <4>1, <5>1, <5>2 DEF KeepsOthers, Events
      <4>3. CASE ~ \A n : Staging(p) # At(n)
        <5>1. pc[p] = "idle"
          BY <4>3, StagingIsOnesOwn DEF InHand
        <5>2. Start(p)
          BY <1>3, <5>1 DEF Step, Fails, Dies, Read, CheckCloseout, ReadTrace, MatchTrace,
             MakeStaging, WritePayload, WriteManifest, Validate, VerifyStaging, CheckInputs, Rename,
             VerifyPublished, RemoveStaging
        <5> QED BY <5>2 DEF Start, SameFile
      <4> QED BY <4>2, <4>3
    <3> QED BY <3>1, <3>2
  <2>3. /\ D!ManifestName # D!ValidationName /\ "trace" # D!ValidationName
        /\ "conversion_manifest" # D!ValidationName /\ "overview_json" # D!ValidationName
    BY DEF D!ManifestName, D!ValidationName
  <2>4. Grows /\ Recorded' = Recorded
    <3> HIDE DEF Inv
    <3>1. {"recovery", "perfetto", "overview"} \subseteq Kinds
      BY DEF Kinds
    <3>2. At("recovery") \in dirs => SameFile(<<At("recovery"), D!ManifestName>>)
      BY <2>2, <2>3, <3>1
    <3>3. At("perfetto") \in dirs =>
             SameFile(<<At("perfetto"), "conversion_manifest">>) /\ SameFile(<<At("perfetto"), "trace">>)
      BY <2>2, <2>3, <3>1
    <3>4. At("overview") \in dirs => SameFile(<<At("overview"), "overview_json">>)
      BY <2>2, <2>3, <3>1
    <3> QED BY <2>1, <2>2, <3>2, <3>3, <3>4, FilesGrow
  <2>5. Events \in DOMAIN files'
    BY <2>2 DEF SameFile
  <2> QED BY <2>1, <2>4, <2>5
<1> QED BY <1>1, <1>2, <1>3 DEF Next

\* An output holds what it appeared with.
LEMMA StepWhole ==
    ASSUME Inv, OutputsWhole, [Next]_vars
    PROVE  OutputsWhole'
<1> USE PublisherKinds DEF Inv
<1>1. CASE UNCHANGED vars
  BY <1>1 DEF vars, OutputsWhole, Holds
<1>2. CASE Next /\ ~ \E p \in Publishers : Rename(p) /\ At(Kind(p)) \notin dirs
  BY <1>2, OutputsUntouched DEF OutputsWhole, Holds, Untouched
<1>3. ASSUME NEW p \in Publishers, Rename(p), At(Kind(p)) \notin dirs PROVE OutputsWhole'
  <2>1. /\ Holds(At(Kind(p)), Whole(Kind(p)))'
        /\ \A dir : dir \notin {At(Kind(p)), Staging(p)} => Untouched(dir)
    BY <1>3, RenameAppears
  <2>2. \A n : Staging(p) # At(n)
    BY <1>3, StagingIsOnesOwn DEF InHand, Rename
  <2>3. ASSUME NEW k \in Kinds, At(k) \in dirs' PROVE Holds(At(k), Whole(k))'
    <3>1. CASE k = Kind(p)
      BY <2>1, <3>1
    <3>2. CASE k # Kind(p)
      <4>1. At(k) # At(Kind(p))
        BY <3>2 DEF At
      <4>2. Untouched(At(k))
        BY <2>1, <2>2, <4>1
      <4> QED BY <2>3, <4>2 DEF OutputsWhole, Holds, Untouched
    <3> QED BY <3>1, <3>2
  <2> QED BY <2>3 DEF OutputsWhole
<1> QED BY <1>1, <1>2, <1>3

\* What a publisher has read and written stands while it waits.
LEMMA WaitingStands ==
    ASSUME Inv, Grows, CloseoutListsEvents, EventsCounted, NEW q \in Publishers,
           HasRead(q), HasWritten(q),
           pc'[q] = pc[q], attempt'[q] = attempt[q], loaded'[q] = loaded[q],
           pc[q] \in Working => \A n : SameFile(<<Staging(q), n>>)
    PROVE  HasRead(q)' /\ HasWritten(q)'
<1> USE PublisherKinds
<1>1. Staging(q)' = Staging(q) /\ \A n : Payload(q, n)' = Payload(q, n)
  BY DEF Staging, Payload, ConversionManifest, OverviewReport
<1>2. At("recovery") \in dirs => At("recovery") \in dirs' /\ RunIdentity' = RunIdentity
  BY DEF Grows, Kinds
<1>3. Recorded \in Nat /\ Recorded' \in Nat /\ Recorded <= Recorded'
  BY DEF Grows, EventsCounted
<1>4. HasRead(q)'
  <2> SUFFICES ASSUME Reads(q)' PROVE HasRead(q)'
    BY DEF HasRead
  <2>1. Reads(q)
    BY DEF Reads
  <2>2. loaded[q].events \in 0..Recorded'
    BY <1>3, <2>1 DEF HasRead
  <2>3. faults' <= 2 => faults <= 2
    BY DEF Grows, EventsCounted
  <2>4. /\ loaded[q] = [events |-> loaded[q].events, run |-> loaded[q].run, trace |-> loaded[q].trace]
        /\ pc[q] # "closeout" => At("recovery") \in dirs
    BY <2>1 DEF HasRead
  <2>5. pc[q] # "closeout" =>
           /\ At("recovery") \in dirs' /\ loaded[q].run = RunIdentity'
           /\ loaded[q].events <= Listed(RunIdentity)'
    BY <1>2, <2>1, <2>4 DEF HasRead, Listed
  <2>6. Kind(q) = "overview" /\ pc[q] \in Matched =>
           /\ loaded[q].trace["trace"].data = loaded[q].events
           /\ faults' <= 2 => loaded[q].events = Listed(RunIdentity)'
    <3>1. pc[q] \in Matched => pc[q] # "closeout"
      BY DEF Matched, Working, Checking
    <3> QED BY <1>2, <2>1, <2>3, <2>4, <3>1 DEF HasRead, Listed
  <2> QED BY <2>2, <2>4, <2>5, <2>6 DEF HasRead
<1>5. HasWritten(q)'
  <2>1. ASSUME pc[q] \in Working, NEW n \in Written(Kind(q)), <<Staging(q), n>> \in DOMAIN files'
        PROVE  files'[<<Staging(q), n>>].data = Payload(q, n)
    BY <2>1 DEF HasWritten, SameFile
  <2>2. ASSUME Kind(q) = "recovery", pc[q] \in {"validate"} \cup Checking
        PROVE  ListsEvents(files[<<Staging(q), D!ManifestName>>].data)'
    <3>1. <<Staging(q), D!ManifestName>> \in DOMAIN files
      BY <2>2, PayloadNames DEF Inv, InHand, Unpublished, Holds, Checking
    <3>2. files'[<<Staging(q), D!ManifestName>>] = files[<<Staging(q), D!ManifestName>>]
      BY <2>2, <3>1 DEF SameFile, Working
    <3>3. ListsEvents(files[<<Staging(q), D!ManifestName>>].data)
      BY <2>2 DEF HasWritten
    <3> QED BY <1>1, <1>3, <3>2, <3>3 DEF ListsEvents, Listed
  <2>3. pc[q] = "returned" => At(Kind(q)) \in dirs'
    BY DEF HasWritten, Grows
  <2> QED BY <1>1, <2>1, <2>2, <2>3 DEF HasWritten
<1> QED BY <1>4, <1>5

LEMMA OthersWait ==
    ASSUME Inv, EventsCounted, NEW p \in Publishers, Start(p) \/ Step(p) \/ Fails(p) \/ Dies(p),
           NEW q \in Publishers \ {p}
    PROVE  pc'[q] = pc[q] /\ attempt'[q] = attempt[q] /\ loaded'[q] = loaded[q]
<1> USE DEF Inv, TypeOK, EventsCounted, Goto, GivesUp
<1>1. CASE Start(p)
  BY <1>1 DEF Start
<1>2. CASE Fails(p) \/ Dies(p)
  BY <1>2 DEF Fails, Dies
<1>3. CASE Read(p)
  BY <1>3 DEF Read
<1>4. CASE CheckCloseout(p) \/ ReadTrace(p) \/ MatchTrace(p)
  BY <1>4 DEF CheckCloseout, ReadTrace, MatchTrace
<1>5. CASE MakeStaging(p) \/ WritePayload(p) \/ WriteManifest(p) \/ Validate(p)
  BY <1>5 DEF MakeStaging, WritePayload, WriteManifest, Validate
<1>6. CASE VerifyStaging(p) \/ CheckInputs(p) \/ Rename(p) \/ VerifyPublished(p) \/ RemoveStaging(p)
  BY <1>6 DEF VerifyStaging, CheckInputs, Rename, VerifyPublished, RemoveStaging
<1> QED BY <1>1, <1>2, <1>3, <1>4, <1>5, <1>6 DEF Step

\* Who ends, begins or gives up has nothing to show.
LEMMA NothingToShow ==
    ASSUME NEW p \in Publishers,
           \/ pc'[p] \in {"idle", "read", "raised", "dead", "clean", "published"}
           \/ Kind(p) = "recovery" /\ pc'[p] = "absent"
    PROVE  HasRead(p)' /\ HasWritten(p)'
BY DEF HasRead, HasWritten, Reads, Matched, Working, Checking

LEMMA StillRead ==
    ASSUME Grows, EventsCounted, NEW p \in Publishers, HasRead(p), pc[p] \in Matched, pc'[p] \in Matched,
           loaded'[p] = loaded[p]
    PROVE  HasRead(p)'
<1> SUFFICES ASSUME Reads(p)' PROVE HasRead(p)'
  BY DEF HasRead
<1>1. Reads(p)
  BY DEF Reads
<1>2. At("recovery") \in dirs => At("recovery") \in dirs' /\ RunIdentity' = RunIdentity
  BY DEF Grows, Kinds
<1>3. Recorded \in Nat /\ Recorded' \in Nat /\ Recorded <= Recorded'
  BY DEF Grows, EventsCounted
<1>4. loaded[p].events \in 0..Recorded'
  BY <1>1, <1>3 DEF HasRead
<1>5. faults' <= 2 => faults <= 2
  BY DEF Grows, EventsCounted
<1>6. pc[p] # "closeout"
  BY DEF Matched, Working, Checking
<1> QED BY <1>1, <1>2, <1>4, <1>5, <1>6 DEF HasRead, Listed

LEMMA ReadOneRun ==
    ASSUME Inv, OneRun, Grows, Recorded' = Recorded, NEW p \in Publishers,
           Read(p) \/ CheckCloseout(p) \/ ReadTrace(p) \/ MatchTrace(p)
    PROVE  HasRead(p)' /\ HasWritten(p)'
<1> USE DEF OneRun, EventsCounted
<1>s. UNCHANGED <<dirs, files, attempt, faults>>
  BY DEF Read, CheckCloseout, ReadTrace, MatchTrace
<1>w. ASSUME pc'[p] \in {"closeout", "trace", "match", "absent"} PROVE HasWritten(p)'
  BY <1>w DEF HasWritten, Working, Checking
<1>r. UNCHANGED RunIdentity
  BY <1>s DEF RunIdentity
<1>1. CASE Read(p)
  <2>1. /\ pc'[p] = "closeout"
        /\ loaded'[p] = [events |-> files[Events].data, run |-> None, trace |-> None]
    BY <1>1 DEF Read, Goto, Inv, TypeOK
  <2>2. HasRead(p)'
    BY <1>s, <2>1 DEF HasRead, Matched, Working, Checking, Recorded
  <2> QED BY <1>w, <2>1, <2>2
<1>2. CASE CheckCloseout(p)
  <2>1. pc[p] = "closeout"
    BY <1>2 DEF CheckCloseout
  <2>2. CASE ~CloseoutHolds
    <3>1. pc'[p] = "raised"
      BY <1>2, <2>2 DEF CheckCloseout, Goto, Inv, TypeOK
    <3> QED BY <3>1, NothingToShow
  <2>3. CASE CloseoutHolds
    <3>1. At("recovery") \in dirs /\ Listed(RunIdentity) = Recorded
      BY <2>3, CloseoutIsNow
    <3>2. /\ pc'[p] = IF Kind(p) = "overview" THEN "trace" ELSE "absent"
          /\ loaded'[p] = [loaded[p] EXCEPT !.run = RunIdentity]
      BY <1>2, <2>3 DEF CheckCloseout, Goto, Inv, TypeOK
    <3>3. HasRead(p)'
      <4> SUFFICES ASSUME Reads(p)' PROVE HasRead(p)'
        BY DEF HasRead
      <4>1. Reads(p)
        BY <2>1 DEF Reads
      <4>2. /\ loaded[p] = [events |-> loaded[p].events, run |-> loaded[p].run, trace |-> loaded[p].trace]
            /\ loaded[p].events \in 0..Recorded
        BY <4>1 DEF HasRead
      <4>3. loaded'[p] = [events |-> loaded[p].events, run |-> RunIdentity, trace |-> loaded[p].trace]
        BY <3>2, <4>2
      <4>4. loaded[p].events <= Listed(RunIdentity)
        BY <3>1, <4>2
      <4>5. ~(Kind(p) = "overview" /\ pc'[p] \in Matched)
        BY <3>2 DEF Matched, Working, Checking
      <4>6. /\ loaded'[p].events = loaded[p].events /\ loaded'[p].run = RunIdentity
            /\ loaded'[p].trace = loaded[p].trace
        BY <4>3
      <4>7. Listed(RunIdentity)' = Listed(RunIdentity) /\ At("recovery") \in dirs'
        BY <1>r, <1>s, <3>1 DEF Listed
      <4> QED BY <1>r, <4>2, <4>3, <4>4, <4>5, <4>6, <4>7 DEF HasRead
    <3> QED BY <1>w, <3>2, <3>3
  <2> QED BY <2>2, <2>3
<1>3. CASE ReadTrace(p)
  <2>1. pc[p] = "trace"
    BY <1>3 DEF ReadTrace
  <2>2. \/ pc'[p] = "raised"
        \/ pc'[p] = "match" /\ loaded'[p] = [loaded[p] EXCEPT !.trace = TraceFiles]
    BY <1>3 DEF ReadTrace, Goto, Inv, TypeOK
  <2>3. CASE pc'[p] = "raised"
    BY <2>3, NothingToShow
  <2>4. CASE pc'[p] = "match" /\ loaded'[p] = [loaded[p] EXCEPT !.trace = TraceFiles]
    <3>1. HasRead(p)'
      <4> SUFFICES ASSUME Reads(p)' PROVE HasRead(p)'
        BY DEF HasRead
      <4>1. Reads(p) /\ pc[p] # "closeout"
        BY <2>1 DEF Reads
      <4>2. /\ loaded[p] = [events |-> loaded[p].events, run |-> loaded[p].run, trace |-> loaded[p].trace]
            /\ loaded[p].events \in 0..Recorded
            /\ At("recovery") \in dirs /\ loaded[p].run = RunIdentity
            /\ loaded[p].events <= Listed(RunIdentity)
        BY <4>1 DEF HasRead
      <4>3. loaded'[p] = [events |-> loaded[p].events, run |-> loaded[p].run, trace |-> TraceFiles]
        BY <2>4, <4>2
      <4>4. pc'[p] \notin Matched
        BY <2>4 DEF Matched, Working, Checking
      <4>5. /\ loaded'[p].events = loaded[p].events /\ loaded'[p].run = loaded[p].run
            /\ loaded'[p].trace = TraceFiles
        BY <4>3
      <4>6. Listed(RunIdentity)' = Listed(RunIdentity) /\ At("recovery") \in dirs'
        BY <1>r, <1>s, <4>2 DEF Listed
      <4> QED BY <1>r, <4>2, <4>3, <4>4, <4>5, <4>6 DEF HasRead
    <3> QED BY <1>w, <2>4, <3>1
  <2> QED BY <2>2, <2>3, <2>4
<1>4. CASE MatchTrace(p)
  <2> DEFINE matches == /\ StoredHolds("perfetto", At("perfetto"))
                        /\ FreshTraceMatches(p) /\ TraceFiles = loaded[p].trace
  <2>1. pc[p] = "match" /\ loaded'[p] = loaded[p]
    BY <1>4 DEF MatchTrace
  <2>2. pc'[p] = IF matches THEN "absent" ELSE "raised"
    BY <1>4 DEF MatchTrace, Goto, Inv, TypeOK
  <2>3. CASE ~matches
    BY <2>2, <2>3, NothingToShow
  <2>4. CASE matches
    <3>1. At("perfetto") \in dirs
      <4>1. <<At("perfetto"), D!ManifestName>> \in DOMAIN files
        BY <2>4 DEF StoredHolds
      <4> QED BY <4>1 DEF Inv, KnownFiles
    <3>2. TraceFiles["trace"] = files[<<At("perfetto"), "trace">>]
      <4>1. "trace" \in Names(At("perfetto"))
        BY <3>1, OutputFiles, NamesOf DEF Inv
      <4> QED BY <4>1 DEF TraceFiles
    <3>3. loaded[p].trace["trace"].data = loaded[p].events /\ Trace("trace") = loaded[p].events
      BY <2>4, <3>2 DEF FreshTraceMatches, Trace
    <3>4. HasRead(p)'
      <4> SUFFICES ASSUME Reads(p)' PROVE HasRead(p)'
        BY DEF HasRead
      <4>1. Reads(p) /\ pc[p] # "closeout"
        BY <2>1 DEF Reads
      <4>2. /\ loaded[p] = [events |-> loaded[p].events, run |-> loaded[p].run, trace |-> loaded[p].trace]
            /\ loaded[p].events \in 0..Recorded
            /\ At("recovery") \in dirs /\ loaded[p].run = RunIdentity
            /\ loaded[p].events <= Listed(RunIdentity)
        BY <4>1 DEF HasRead
      <4>3. Listed(RunIdentity) \in Nat
        BY <4>2 DEF Outputs, CloseoutListsEvents, ListsEvents
      <4>4. Kind(p) = "overview" /\ faults <= 2 => loaded[p].events = Listed(RunIdentity)
        <5> SUFFICES ASSUME Kind(p) = "overview", faults <= 2, loaded[p].events < Listed(RunIdentity)
                     PROVE  FALSE
          BY <4>2, <4>3
        <5>1. ReadOld(p)
          BY <4>1 DEF ReadOld
        <5>2. Trace("trace") >= Listed(RunIdentity)
          BY <3>1, <4>2, <5>1 DEF NotBothOld
        <5> QED BY <3>3, <4>2, <4>3, <5>2
      <4>5. Listed(RunIdentity)' = Listed(RunIdentity) /\ At("recovery") \in dirs'
        BY <1>r, <1>s, <4>2 DEF Listed
      <4> QED BY <1>r, <1>s, <2>1, <3>3, <4>2, <4>4, <4>5 DEF HasRead
    <3> QED BY <1>w, <2>2, <2>4, <3>4
  <2> QED BY <2>3, <2>4
<1> QED BY <1>1, <1>2, <1>3, <1>4

\* What is staged, after a file that is none of its payloads, or one that is, is written.
LEMMA StillWritten ==
    ASSUME NEW p \in Publishers, HasWritten(p), pc[p] \in Working, pc'[p] \in Working,
           attempt' = attempt, loaded' = loaded, NEW name, NEW data,
           Put(<<Staging(p), name>>, p, data),
           name \in Written(Kind(p)) => data = Payload(p, name)
    PROVE  \A n \in Written(Kind(p)) : <<Staging(p), n>> \in DOMAIN files' =>
              files'[<<Staging(p), n>>].data = Payload(p, n)
<1> SUFFICES ASSUME NEW n \in Written(Kind(p)), <<Staging(p), n>> \in DOMAIN files'
             PROVE  files'[<<Staging(p), n>>].data = Payload(p, n)
  OBVIOUS
<1>1. CASE n = name
  <2>1. files'[<<Staging(p), name>>] = [by |-> p, data |-> data]
    BY PutGives
  <2> QED BY <1>1, <2>1
<1>2. CASE n # name
  <2>1. <<Staging(p), n>> # <<Staging(p), name>>
    BY <1>2
  <2>2. SameFile(<<Staging(p), n>>)
    BY <2>1, PutKeepsOthers
  <2> QED BY <2>2 DEF HasWritten, SameFile
<1> QED BY <1>1, <1>2

LEMMA PayloadNamesApart ==
    ASSUME NEW kind \in Kinds
    PROVE  D!ManifestName \notin Written(kind) /\ D!ValidationName \notin Written(kind)
<1>1. CASE kind = "recovery"
  BY <1>1 DEF Written, Payloads, RecoveryPayloads, D!ManifestName, D!ValidationName
<1>2. CASE kind = "perfetto"
  BY <1>2 DEF Written, Payloads, PerfettoPayloads, D!ManifestName, D!ValidationName
<1>3. CASE kind = "overview"
  BY <1>3 DEF Written, Payloads, OverviewPayloads, D!ManifestName, D!ValidationName
<1> QED BY <1>1, <1>2, <1>3 DEF Kinds

LEMMA WriteOneRun ==
    ASSUME Inv, OneRun, Grows, Recorded' = Recorded, NEW p \in Publishers,
           MakeStaging(p) \/ WritePayload(p) \/ WriteManifest(p) \/ Validate(p)
    PROVE  HasRead(p)' /\ HasWritten(p)'
<1> USE PublisherKinds DEF OneRun, EventsCounted
<1>s. UNCHANGED <<attempt, loaded, faults>> /\ pc[p] \in Matched
  BY DEF MakeStaging, WritePayload, WriteManifest, Validate, Matched, Working
<1>p. Staging(p)' = Staging(p) /\ \A n : Payload(p, n)' = Payload(p, n)
  BY <1>s DEF Staging, Payload, ConversionManifest, OverviewReport
<1>g. ASSUME GivesUp(p) PROVE HasRead(p)' /\ HasWritten(p)'
  <2>1. pc'[p] \in {"raised", "clean"}
    BY <1>g DEF GivesUp, Goto, Inv, TypeOK
  <2> QED BY <2>1, NothingToShow
<1>r. ASSUME pc'[p] \in Matched PROVE HasRead(p)'
  BY <1>r, <1>s, StillRead
<1>1. CASE MakeStaging(p)
  <2>1. pc[p] = "absent"
    BY <1>1 DEF MakeStaging
  <2>2. \/ pc'[p] = "raised"
        \/ pc'[p] = "write" /\ files' = files
    BY <1>1 DEF MakeStaging, Goto, Inv, TypeOK
  <2>3. CASE pc'[p] = "raised"
    BY <2>3, NothingToShow
  <2>4. CASE pc'[p] = "write" /\ files' = files
    <3>1. Staging(p) \notin dirs
      BY <2>1 DEF Inv, InHand, Before
    <3>2. \A n : <<Staging(p), n>> \notin DOMAIN files
      BY <3>1 DEF Inv, KnownFiles
    <3>3. HasWritten(p)'
      BY <1>p, <2>4, <3>2 DEF HasWritten, Checking
    <3> QED BY <1>r, <2>4, <3>3 DEF Matched, Working
  <2> QED BY <2>2, <2>3, <2>4
<1>2. CASE WritePayload(p)
  <2>1. PICK i \in DOMAIN Payloads(Kind(p)) :
           /\ Put(<<Staging(p), Payloads(Kind(p))[i]>>, p, Payload(p, Payloads(Kind(p))[i]))
           /\ pc[p] = "write" /\ pc'[p] \in {"write", "manifest"}
    BY <1>2 DEF WritePayload, Goto, Inv, TypeOK
  <2>2. pc[p] \in Working /\ pc'[p] \in Working
    BY <2>1 DEF Working
  <2>3. \A n \in Written(Kind(p)) : <<Staging(p), n>> \in DOMAIN files' =>
              files'[<<Staging(p), n>>].data = Payload(p, n)
    BY <1>s, <2>1, <2>2, StillWritten
  <2>4. HasWritten(p)'
    BY <1>p, <2>1, <2>3 DEF HasWritten, Checking
  <2> QED BY <1>r, <2>2, <2>4 DEF Matched
<1>3. CASE WriteManifest(p)
  <2> DEFINE manifest == D!BuildManifest(Inventoried(Kind(p), Staging(p)),
                           DOMAIN Roots(Kind(p), Staging(p)), Kind(p), Required(Kind(p)))
  <2>1. /\ pc[p] = "manifest" /\ UNCHANGED dirs
        /\ IF manifest = Refused THEN GivesUp(p)
           ELSE Goto(p, "validate") /\ Put(<<Staging(p), D!ManifestName>>, p, manifest)
    <3> HIDE DEF manifest
    <3> QED BY <1>3 DEF WriteManifest, manifest
  <2>2. CASE manifest # Refused
    <3>1. pc'[p] = "validate" /\ Put(<<Staging(p), D!ManifestName>>, p, manifest)
      BY <2>1, <2>2 DEF Goto, Inv, TypeOK
    <3>2. pc[p] \in Working /\ pc'[p] \in Working
      BY <2>1, <3>1 DEF Working
    <3>3. \A n \in Written(Kind(p)) : <<Staging(p), n>> \in DOMAIN files' =>
                files'[<<Staging(p), n>>].data = Payload(p, n)
      <4> HIDE DEF manifest
      <4> QED BY <1>s, <3>1, <3>2, StillWritten, PayloadNamesApart
    <3>4. ASSUME Kind(p) = "recovery"
          PROVE  ListsEvents(files[<<Staging(p), D!ManifestName>>].data)'
      <4>1. manifest.entries = Inventoried("recovery", Staging(p))
        BY <2>2, <3>4 DEF D!BuildManifest
      <4>2. HybridEvents \in DOMAIN manifest.entries /\ Listed(manifest) = Recorded
        BY <4>1, EventsAreListed DEF Listed, Recorded
      <4>3. files'[<<Staging(p), D!ManifestName>>].data = manifest
        <5> HIDE DEF manifest
        <5>1. files'[<<Staging(p), D!ManifestName>>] = [by |-> p, data |-> manifest]
          BY <3>1, PutGives
        <5> QED BY <5>1
      <4>4. Recorded' = Recorded /\ Recorded \in Nat
        OBVIOUS
      <4> HIDE DEF manifest
      <4> QED BY <1>p, <4>2, <4>3, <4>4 DEF ListsEvents, Listed
    <3>5. HasWritten(p)'
      BY <1>p, <3>1, <3>3, <3>4 DEF HasWritten
    <3> QED BY <1>r, <3>2, <3>5 DEF Matched
  <2> QED BY <1>g, <2>1, <2>2
<1>4. CASE Validate(p)
  <2> DEFINE report == D!ValidateManifest(files[<<Staging(p), D!ManifestName>>].data,
                                          Inventoried(Kind(p), Staging(p)))
  <2> HIDE DEF report
  <2>1. /\ pc[p] = "validate"
        /\ IF report.valid \/ Kind(p) = "recovery"
             THEN Put(<<Staging(p), D!ValidationName>>, p, report) ELSE UNCHANGED files
        /\ IF report.valid THEN Goto(p, IF Kind(p) = "recovery" THEN "rename" ELSE "verify")
           ELSE GivesUp(p)
    BY <1>4 DEF Validate, report
  <2>2. CASE report.valid
    <3>1. pc'[p] \in {"rename", "verify"} /\ Put(<<Staging(p), D!ValidationName>>, p, report)
      BY <2>1, <2>2 DEF Goto, Inv, TypeOK
    <3>2. pc[p] \in Working /\ pc'[p] \in Working
      BY <2>1, <3>1 DEF Working, Checking
    <3>3. \A n \in Written(Kind(p)) : <<Staging(p), n>> \in DOMAIN files' =>
                files'[<<Staging(p), n>>].data = Payload(p, n)
      BY <1>s, <3>1, <3>2, StillWritten, PayloadNamesApart
    <3>4. ASSUME Kind(p) = "recovery"
          PROVE  ListsEvents(files[<<Staging(p), D!ManifestName>>].data)'
      <4>1. ListsEvents(files[<<Staging(p), D!ManifestName>>].data)
        BY <2>1, <3>4 DEF HasWritten
      <4>2. <<Staging(p), D!ManifestName>> \in DOMAIN files
        BY <2>1 DEF Inv, InHand, Unpublished, Holds
      <4>3. <<Staging(p), D!ManifestName>> # <<Staging(p), D!ValidationName>>
        BY DEF D!ManifestName, D!ValidationName
      <4>4. files'[<<Staging(p), D!ManifestName>>] = files[<<Staging(p), D!ManifestName>>]
        BY <3>1, <4>2, <4>3, PutKeepsOthers DEF SameFile
      <4> QED BY <1>p, <4>1, <4>4 DEF ListsEvents, Listed
    <3>5. HasWritten(p)'
      BY <1>p, <3>1, <3>3, <3>4 DEF HasWritten
    <3> QED BY <1>r, <3>2, <3>5 DEF Matched
  <2> QED BY <1>g, <2>1, <2>2
<1> QED BY <1>1, <1>2, <1>3, <1>4

LEMMA CheckOneRun ==
    ASSUME Inv, OneRun, Grows, Recorded' = Recorded, NEW p \in Publishers,
           \/ Start(p) \/ VerifyStaging(p) \/ CheckInputs(p) \/ Rename(p) \/ VerifyPublished(p)
           \/ RemoveStaging(p) \/ Fails(p) \/ Dies(p)
    PROVE  HasRead(p)' /\ HasWritten(p)'
<1> USE PublisherKinds DEF OneRun, EventsCounted
<1>g. ASSUME GivesUp(p) PROVE HasRead(p)' /\ HasWritten(p)'
  <2>1. pc'[p] \in {"raised", "clean"}
    BY <1>g DEF GivesUp, Goto, Inv, TypeOK
  <2> QED BY <2>1, NothingToShow
<1>1. CASE Start(p)
  <2>1. pc'[p] = IF Kind(p) = "recovery" THEN "absent" ELSE "read"
    BY <1>1 DEF Start, Goto, Inv, TypeOK
  <2> QED BY <2>1, NothingToShow
<1>2. CASE VerifyStaging(p) \/ CheckInputs(p)
  <2>1. /\ pc[p] \in {"verify", "inputs"} /\ UNCHANGED <<dirs, files, attempt, loaded, faults>>
        /\ GivesUp(p) \/ pc'[p] \in {"inputs", "rename"}
    BY <1>2 DEF VerifyStaging, CheckInputs, Goto, Inv, TypeOK
  <2>2. CASE pc'[p] \in {"inputs", "rename"}
    <3>1. pc[p] \in {"validate"} \cup Checking /\ pc[p] \in Working /\ pc[p] \in Matched
      BY <2>1 DEF Checking, Working, Matched
    <3>2. pc'[p] \in Matched /\ pc'[p] # "returned"
      BY <2>2 DEF Checking, Working, Matched
    <3>3. HasRead(p)'
      BY <2>1, <3>1, <3>2, StillRead
    <3>4. Staging(p)' = Staging(p) /\ \A n : Payload(p, n)' = Payload(p, n)
      BY <2>1 DEF Staging, Payload, ConversionManifest, OverviewReport
    <3>5. HasWritten(p)'
      BY <2>1, <3>1, <3>2, <3>4 DEF HasWritten, ListsEvents, Recorded, Listed
    <3> QED BY <3>3, <3>5
  <2> QED BY <1>g, <2>1, <2>2
<1>3. CASE Rename(p)
  <2>1. GivesUp(p) \/ pc'[p] = "published"
    BY <1>3 DEF Rename, Goto, Inv, TypeOK
  <2> QED BY <1>g, <2>1, NothingToShow
<1>4. CASE VerifyPublished(p)
  <2>1. pc[p] = "published" /\ dirs' = dirs /\ pc'[p] \in {"returned", "raised"}
    BY <1>4 DEF VerifyPublished, Goto, Inv, TypeOK
  <2>2. At(Kind(p)) \in dirs
    BY <2>1 DEF Inv, InHand, Published
  <2> QED BY <2>1, <2>2 DEF HasRead, HasWritten, Reads, Matched, Working, Checking
<1>5. CASE RemoveStaging(p)
  <2>1. pc'[p] = "raised"
    BY <1>5 DEF RemoveStaging, Goto, Inv, TypeOK
  <2> QED BY <2>1, NothingToShow
<1>6. CASE Fails(p) \/ Dies(p)
  <2>1. GivesUp(p) \/ pc'[p] \in {"raised", "dead"}
    BY <1>6 DEF Fails, Dies, Goto, Inv, TypeOK
  <2> QED BY <1>g, <2>1, NothingToShow
<1> QED BY <1>1, <1>2, <1>3, <1>4, <1>5, <1>6

LEMMA PublishersOneRun ==
    ASSUME Inv, OneRun, [Next]_vars, NEW q \in Publishers
    PROVE  HasRead(q)' /\ HasWritten(q)'
<1> USE DEF OneRun
<1>1. Grows /\ (Tampered \/ Recorded' = Recorded)
  BY StepGrows
<1>2. pc[q] \in Working => \A n : Staging(q) # At(n)
  BY StagingIsOnesOwn DEF Inv, InHand, Working, Checking
<1>3. CASE UNCHANGED vars
  <2>1. \A f : SameFile(f)
    BY <1>3 DEF vars, SameFile
  <2>2. pc'[q] = pc[q] /\ attempt'[q] = attempt[q] /\ loaded'[q] = loaded[q]
    BY <1>3 DEF vars
  <2> QED BY <1>1, <2>1, <2>2, WaitingStands DEF Outputs
<1>4. CASE Tampered
  <2>1. pc'[q] = pc[q] /\ attempt'[q] = attempt[q] /\ loaded'[q] = loaded[q]
    BY <1>4 DEF Tampered
  <2>2. ASSUME pc[q] \in Working, NEW n PROVE SameFile(<<Staging(q), n>>)
    <3>1. <<Staging(q), n>> \notin {Events, <<At("perfetto"), "trace">>, Deferred}
      BY <1>2, <2>2 DEF Events, Deferred
    <3> QED BY <1>4, <3>1, TamperedKeeps
  <2> QED BY <1>1, <2>1, <2>2, WaitingStands DEF Outputs
<1>5. ASSUME ~Tampered, NEW p \in Publishers, Start(p) \/ Step(p) \/ Fails(p) \/ Dies(p)
      PROVE  HasRead(q)' /\ HasWritten(q)'
  <2>1. CASE q = p
    BY <1>1, <1>5, <2>1, ReadOneRun, WriteOneRun, CheckOneRun DEF Step
  <2>2. CASE q # p
    <3>1. pc'[q] = pc[q] /\ attempt'[q] = attempt[q] /\ loaded'[q] = loaded[q]
      BY <1>5, <2>2, OthersWait
    <3>2. ASSUME pc[q] \in Working, NEW n PROVE SameFile(<<Staging(q), n>>)
      <4>1. Staging(q) # Staging(p)
        BY <2>2, <3>2, StagingIsOnesOwn DEF Inv, InHand, Working, Checking
      <4>2. Staging(q) # At(Kind(p)) /\ Staging(q) # At("recovery")
        BY <1>2, <3>2
      <4>3. CASE Rename(p) /\ At(Kind(p)) \notin dirs
        BY <4>1, <4>2, <4>3, RenameMoves
      <4>4. CASE ~(Rename(p) /\ At(Kind(p)) \notin dirs)
        <5>1. KeepsOthers(p)
          BY <1>5, <4>4, StepKeepsOthers
        <5>2. <<Staging(q), n>> # <<At("recovery"), D!ValidationName>>
          BY <4>2
        <5> QED BY <4>1, <5>1, <5>2 DEF KeepsOthers
      <4> QED BY <4>3, <4>4
    <3> QED BY <1>1, <3>1, <3>2, WaitingStands DEF Outputs
  <2> QED BY <2>1, <2>2
<1> QED BY <1>3, <1>4, <1>5 DEF Next

\* An output that is there goes on telling the truth.
LEMMA OutputsStand ==
    ASSUME Grows, EventsCounted, Outputs
    PROVE  /\ At("recovery") \in dirs => CloseoutListsEvents'
           /\ At("perfetto") \in dirs => TraceIsOfRun'
           /\ At("overview") \in dirs => ReportIsOfRun'
<1>1. At("recovery") \in dirs => At("recovery") \in dirs' /\ RunIdentity' = RunIdentity
  BY DEF Grows, Kinds
<1>2. At("recovery") \in dirs => CloseoutListsEvents'
  BY <1>1 DEF Grows, EventsCounted, Outputs, CloseoutListsEvents, ListsEvents, Listed
<1>3. At("perfetto") \in dirs => TraceIsOfRun'
  BY <1>1 DEF Grows, Outputs, TraceIsOfRun
<1>4. ASSUME At("overview") \in dirs PROVE ReportIsOfRun'
  <2>1. At("recovery") \in dirs /\ Report' = Report
    BY <1>4 DEF Grows, Outputs, ReportIsOfRun
  <2>2. faults' <= 2 => faults <= 2
    BY DEF Grows, EventsCounted
  <2>3. Listed(RunIdentity)' = Listed(RunIdentity)
    BY <1>1, <2>1 DEF Listed
  <2> QED BY <1>1, <1>4, <2>1, <2>2, <2>3 DEF Outputs, ReportIsOfRun
<1> QED BY <1>2, <1>3, <1>4

\* What a publisher renames is what it has written.
LEMMA RenamedPayload ==
    ASSUME Inv, OneRun, NEW p \in Publishers, Rename(p), At(Kind(p)) \notin dirs
    PROVE  /\ \A n \in Written(Kind(p)) : files'[<<At(Kind(p)), n>>].data = Payload(p, n)
           /\ Kind(p) = "recovery" => ListsEvents(files'[<<At("recovery"), D!ManifestName>>].data)
<1> USE PublisherKinds DEF OneRun
<1>1. pc[p] = "rename" /\ pc[p] \in Working /\ pc[p] \in Checking
  BY DEF Rename, Working, Checking
<1>2. \A n \in Whole(Kind(p)) : files'[<<At(Kind(p)), n>>] = files[<<Staging(p), n>>]
  BY RenameMoves
<1>3. \A n \in Whole(Kind(p)) : <<Staging(p), n>> \in DOMAIN files
  BY <1>1 DEF Inv, InHand, Unpublished, Holds
<1>4. Written(Kind(p)) \subseteq Whole(Kind(p)) /\ D!ManifestName \in Whole(Kind(p))
  BY PayloadNames
<1>5. ASSUME NEW n \in Written(Kind(p)) PROVE files'[<<At(Kind(p)), n>>].data = Payload(p, n)
  <2>1. files[<<Staging(p), n>>].data = Payload(p, n)
    BY <1>1, <1>3, <1>4 DEF HasWritten
  <2> QED BY <1>2, <1>4, <2>1
<1>6. ASSUME Kind(p) = "recovery"
      PROVE  ListsEvents(files'[<<At("recovery"), D!ManifestName>>].data)
  <2>1. ListsEvents(files[<<Staging(p), D!ManifestName>>].data)
    BY <1>1, <1>6 DEF HasWritten
  <2>2. files'[<<At("recovery"), D!ManifestName>>] = files[<<Staging(p), D!ManifestName>>]
    BY <1>2, <1>4, <1>6
  <2> QED BY <2>1, <2>2
<1> QED BY <1>5, <1>6

LEMMA OutputNames ==
    /\ "trace" \in Written("perfetto") /\ "conversion_manifest" \in Written("perfetto")
    /\ "overview_json" \in Written("overview")
<1>1. /\ PerfettoPayloads[1] = "trace" /\ PerfettoPayloads[3] = "conversion_manifest"
      /\ 1 \in DOMAIN PerfettoPayloads /\ 3 \in DOMAIN PerfettoPayloads
  BY DEF PerfettoPayloads
<1>2. OverviewPayloads[2] = "overview_json" /\ 2 \in DOMAIN OverviewPayloads
  BY DEF OverviewPayloads
<1> QED BY <1>1, <1>2 DEF Written, Payloads

LEMMA StepOutputs ==
    ASSUME Inv, OneRun, [Next]_vars
    PROVE  Outputs'
<1> USE PublisherKinds DEF OneRun
<1>g. Grows /\ EventsCounted' /\ (Tampered \/ Recorded' = Recorded)
  BY StepGrows
<1>o. /\ At("recovery") \in dirs => CloseoutListsEvents'
      /\ At("perfetto") \in dirs => TraceIsOfRun'
      /\ At("overview") \in dirs => ReportIsOfRun'
  BY <1>g, OutputsStand
<1>1. CASE \A k \in Kinds : At(k) \in dirs' => At(k) \in dirs
  BY <1>o, <1>1 DEF Outputs, CloseoutListsEvents, TraceIsOfRun, ReportIsOfRun, Kinds
<1>2. ASSUME NEW p \in Publishers, Rename(p), At(Kind(p)) \notin dirs PROVE Outputs'
  <2>1. \A k \in Kinds : At(k) \in dirs' <=> At(k) \in dirs \/ k = Kind(p)
    BY <1>2, RenameMoves
  <2>2. /\ \A n \in Written(Kind(p)) : files'[<<At(Kind(p)), n>>].data = Payload(p, n)
        /\ Kind(p) = "recovery" => ListsEvents(files'[<<At("recovery"), D!ManifestName>>].data)
    BY <1>2, RenamedPayload
  <2>3. pc[p] = "rename" /\ pc[p] \in Matched /\ UNCHANGED <<loaded, faults>>
    BY <1>2 DEF Rename, Matched, Working, Checking
  <2>4. Kind(p) # "recovery" =>
           /\ At("recovery") \in dirs /\ loaded[p].run = RunIdentity /\ loaded[p].events \in Nat
           /\ At("recovery") \in dirs' /\ RunIdentity' = RunIdentity
    <3>1. Kind(p) # "recovery" => Reads(p) /\ pc[p] # "closeout"
      BY <2>3 DEF Reads
    <3>2. Kind(p) # "recovery" =>
             /\ At("recovery") \in dirs /\ loaded[p].run = RunIdentity
             /\ loaded[p].events \in 0..Recorded
      BY <3>1 DEF HasRead
    <3> QED BY <1>g, <3>2 DEF Grows, Kinds, EventsCounted
  <2>t. ~Tampered
    <3>1. dirs' # dirs
      BY <1>2, <2>1
    <3> QED BY <3>1 DEF Tampered
  <2>5. CASE Kind(p) = "recovery"
    <3>1. CloseoutListsEvents'
      BY <1>g, <2>2, <2>5, <2>t DEF CloseoutListsEvents, ListsEvents, Listed, RunIdentity
    <3>2. At("perfetto") \notin dirs /\ At("overview") \notin dirs
      BY <1>2, <2>5 DEF Outputs, TraceIsOfRun, ReportIsOfRun
    <3>3. At("perfetto") \notin dirs' /\ At("overview") \notin dirs'
      BY <2>1, <2>5, <3>2 DEF Kinds
    <3> QED BY <3>1, <3>3 DEF Outputs, TraceIsOfRun, ReportIsOfRun
  <2>6. CASE Kind(p) = "perfetto"
    <3>1. /\ Trace("conversion_manifest")' = ConversionManifest(p)
          /\ Trace("trace")' = loaded[p].events
      BY <2>2, <2>6, OutputNames DEF Trace, Payload
    <3>2. TraceIsOfRun'
      BY <2>4, <2>6, <3>1 DEF TraceIsOfRun, ConversionManifest
    <3>3. At("overview") \in dirs' => At("overview") \in dirs
      BY <2>1, <2>6 DEF Kinds
    <3> QED BY <1>o, <2>4, <2>6, <3>2, <3>3 DEF Outputs, ReportIsOfRun
  <2>7. CASE Kind(p) = "overview"
    <3>1. Report' = [events |-> loaded[p].events, trace |-> loaded[p].trace["trace"]]
      BY <2>2, <2>7, OutputNames DEF Report, Payload, OverviewReport
    <3>2. /\ loaded[p].trace["trace"].data = loaded[p].events
          /\ faults <= 2 => loaded[p].events = Listed(RunIdentity)
      BY <2>3, <2>7 DEF HasRead, Reads
    <3>3. ReportIsOfRun'
      BY <2>3, <2>4, <2>7, <3>1, <3>2 DEF ReportIsOfRun, Listed
    <3>4. At("perfetto") \in dirs' => At("perfetto") \in dirs
      BY <2>1, <2>7 DEF Kinds
    <3> QED BY <1>o, <2>4, <2>7, <3>3, <3>4 DEF Outputs, TraceIsOfRun
  <2> QED BY <2>5, <2>6, <2>7 DEF Kinds
<1>3. \/ \A k \in Kinds : At(k) \in dirs' => At(k) \in dirs
      \/ \E p \in Publishers : Rename(p) /\ At(Kind(p)) \notin dirs
  <2>1. CASE UNCHANGED vars
    BY <2>1 DEF vars
  <2>2. CASE Tampered
    BY <2>2 DEF Tampered
  <2>3. ASSUME NEW p \in Publishers, Start(p) \/ Step(p) \/ Fails(p) \/ Dies(p),
               ~(Rename(p) /\ At(Kind(p)) \notin dirs)
        PROVE  \A k \in Kinds : At(k) \in dirs' => At(k) \in dirs
    BY <2>3, StepKeepsOthers DEF KeepsOthers
  <2> QED BY <2>1, <2>2, <2>3 DEF Next
<1> QED BY <1>1, <1>2, <1>3

LEMMA StepEarly ==
    ASSUME Inv, OneRun, [Next]_vars
    PROVE  EarlyIsAFault'
<1> USE PublisherKinds DEF OneRun
<1>g. /\ Grows /\ EventsCounted' /\ (Tampered \/ Recorded' = Recorded)
  BY StepGrows
<1> SUFFICES ASSUME At("recovery") \notin dirs', NEW c \in Publishers, NEW o \in Publishers,
                    Kind(c) = "perfetto", Kind(o) = "overview"
             PROVE  Started(c)' + Started(o)' + Recorded' <= faults'
  BY DEF EarlyIsAFault
<1>1. At("recovery") \notin dirs
  BY <1>g DEF Grows, Kinds
<1>2. Started(c) + Started(o) + Recorded <= faults
  BY <1>1 DEF EarlyIsAFault
<1>3. /\ faults \in Nat /\ faults' \in Nat /\ faults <= faults'
      /\ Recorded \in Nat /\ Recorded' \in Nat
      /\ Started(c) \in 0..1 /\ Started(o) \in 0..1
  BY <1>g DEF Grows, EventsCounted, Started
<1>4. CASE UNCHANGED attempt /\ Recorded' = Recorded
  <2>1. Started(c)' = Started(c) /\ Started(o)' = Started(o)
    BY <1>4 DEF Started
  <2> QED BY <1>2, <1>3, <1>4, <2>1
<1>5. CASE Tampered
  <2>1. /\ faults' = faults + 1 /\ Started(c)' = Started(c) /\ Started(o)' = Started(o)
    BY <1>5 DEF Tampered, Fault, Started
  <2>2. Recorded' = Recorded \/ Recorded' = Recorded + 1
    BY <1>5, TamperedKeeps DEF EventsCounted, Recorded
  <2> QED BY <1>2, <1>3, <2>1, <2>2
<1>6. ASSUME NEW p \in Publishers, Start(p), Recorded' = Recorded
      PROVE  Started(c)' + Started(o)' + Recorded' <= faults'
  <2>1. \A q \in Publishers \ {p} : Started(q)' = Started(q)
    BY <1>6 DEF Start, Started, Inv, TypeOK
  <2>2. Started(p)' \in 0..1
    BY DEF Started
  <2>3. CASE Kind(p) = "recovery"
    <3>1. Started(c)' = Started(c) /\ Started(o)' = Started(o)
      BY <2>1, <2>3
    <3> QED BY <1>2, <1>3, <1>6, <3>1
  <2>4. CASE Kind(p) # "recovery"
    <3>1. ~InTurn(p)
      <4>1. ~Returned("recovery")
        BY <1>1 DEF Returned, HasWritten
      <4>2. ~Returned("perfetto")
        BY <1>1 DEF Returned, HasWritten, Outputs, TraceIsOfRun
      <4> QED BY <2>4, <4>1, <4>2 DEF InTurn, Kinds
    <3>2. faults' = faults + 1
      BY <1>6, <3>1 DEF Start, Fault
    <3>3. c # o
      OBVIOUS
    <3>4. CASE p \notin {c, o}
      <4>1. Started(c)' = Started(c) /\ Started(o)' = Started(o)
        BY <2>1, <3>4
      <4> QED BY <1>2, <1>3, <1>6, <3>2, <4>1
    <3>5. CASE p = c
      <4>1. Started(o)' = Started(o) /\ Started(c)' <= Started(c) + 1 /\ Started(c)' \in 0..1
        BY <1>3, <2>1, <2>2, <3>3, <3>5
      <4> QED BY <1>2, <1>3, <1>6, <3>2, <4>1
    <3>6. CASE p = o
      <4>1. Started(c)' = Started(c) /\ Started(o)' <= Started(o) + 1 /\ Started(o)' \in 0..1
        BY <1>3, <2>1, <2>2, <3>3, <3>6
      <4> QED BY <1>2, <1>3, <1>6, <3>2, <4>1
    <3> QED BY <3>4, <3>5, <3>6
  <2> QED BY <2>3, <2>4
<1>7. \/ Tampered
      \/ UNCHANGED attempt
      \/ \E p \in Publishers : Start(p)
  <2>1. CASE UNCHANGED vars
    BY <2>1 DEF vars
  <2>2. ASSUME NEW p \in Publishers, Step(p) \/ Fails(p) \/ Dies(p) PROVE UNCHANGED attempt
    BY <2>2 DEF Step, Fails, Dies, Read, CheckCloseout, ReadTrace, MatchTrace, MakeStaging,
       WritePayload, WriteManifest, Validate, VerifyStaging, CheckInputs, Rename, VerifyPublished,
       RemoveStaging
  <2> QED BY <2>1, <2>2 DEF Next
<1> QED BY <1>g, <1>4, <1>5, <1>6, <1>7

\* Once the closeout is there, who reads reads what it lists.
LEMMA OldBefore ==
    ASSUME Inv, OneRun, [Next]_vars, At("recovery") \in dirs, NEW q \in Publishers, ReadOld(q)'
    PROVE  ReadOld(q)
<1> USE PublisherKinds DEF OneRun
<1>g. Grows
  BY StepGrows
<1>1. Listed(RunIdentity)' = Listed(RunIdentity) /\ Listed(RunIdentity) \in 0..Recorded
  BY <1>g DEF Grows, Listed, Outputs, CloseoutListsEvents, ListsEvents, Kinds
<1>2. CASE pc'[q] = pc[q] /\ loaded'[q] = loaded[q]
  BY <1>1, <1>2 DEF ReadOld, Reads
<1>3. ASSUME Start(q) \/ Step(q) \/ Fails(q) \/ Dies(q) PROVE ReadOld(q)
  <2>1. Reads(q)'
    BY DEF ReadOld
  <2>e. pc'[q] \notin {"read", "raised", "dead", "clean", "published", "returned"}
    BY <2>1 DEF Reads, Matched, Working, Checking
  <2>g. ~GivesUp(q)
    BY <2>e DEF GivesUp, Goto, Inv, TypeOK
  <2>2. ~(Start(q) \/ Fails(q) \/ Dies(q) \/ Rename(q) \/ VerifyPublished(q) \/ RemoveStaging(q))
    <3>1. ~Start(q)
      BY <2>1, <2>e DEF Start, Goto, Inv, TypeOK, Reads
    <3>2. ~(Fails(q) \/ Dies(q))
      BY <2>e, <2>g DEF Fails, Dies, Goto, Inv, TypeOK
    <3>3. ~(Rename(q) \/ VerifyPublished(q) \/ RemoveStaging(q))
      BY <2>e, <2>g DEF Rename, VerifyPublished, RemoveStaging, Goto, Inv, TypeOK
    <3> QED BY <3>1, <3>2, <3>3
  <2>3. CASE Read(q)
    <3>1. loaded'[q].events = Recorded
      BY <2>3 DEF Read, EventsCounted, Recorded
    <3> QED BY <1>1, <3>1 DEF ReadOld, EventsCounted
  <2>4. ASSUME Reads(q), loaded'[q].events = loaded[q].events PROVE ReadOld(q)
    BY <1>1, <2>4 DEF ReadOld
  <2>5. CASE CheckCloseout(q) \/ ReadTrace(q)
    <3>1. Reads(q)
      BY <2>1, <2>5 DEF CheckCloseout, ReadTrace, Reads
    <3>2. loaded[q] = [events |-> loaded[q].events, run |-> loaded[q].run, trace |-> loaded[q].trace]
      BY <3>1 DEF HasRead
    <3>3. \/ loaded'[q] = loaded[q]
          \/ \E x : loaded'[q] = [loaded[q] EXCEPT !.run = x]
          \/ \E x : loaded'[q] = [loaded[q] EXCEPT !.trace = x]
      BY <2>5 DEF CheckCloseout, ReadTrace, EventsCounted
    <3>4. loaded'[q].events = loaded[q].events
      BY <3>2, <3>3
    <3> QED BY <2>4, <3>1, <3>4
  <2>6. CASE \/ MatchTrace(q) \/ MakeStaging(q) \/ WritePayload(q) \/ WriteManifest(q)
             \/ Validate(q) \/ VerifyStaging(q) \/ CheckInputs(q)
    <3>1. UNCHANGED loaded /\ pc[q] \in {"match"} \cup Matched
      BY <2>6 DEF MatchTrace, MakeStaging, WritePayload, WriteManifest, Validate, VerifyStaging,
         CheckInputs, Matched, Working, Checking
    <3> QED BY <2>1, <2>4, <3>1 DEF Reads
  <2> QED BY <1>3, <2>2, <2>3, <2>5, <2>6 DEF Step
<1>4. CASE UNCHANGED vars \/ Tampered
  BY <1>2, <1>4 DEF vars, Tampered
<1>5. ASSUME NEW p \in Publishers, p # q, Start(p) \/ Step(p) \/ Fails(p) \/ Dies(p)
      PROVE  ReadOld(q)
  BY <1>2, <1>5, OthersWait
<1> QED BY <1>3, <1>4, <1>5 DEF Next

LEMMA StepNotBoth ==
    ASSUME Inv, OneRun, [Next]_vars
    PROVE  NotBothOld'
<1> USE PublisherKinds DEF OneRun
<1>g. /\ Grows /\ EventsCounted' /\ Outputs'
  BY StepGrows, StepOutputs
<1> SUFFICES ASSUME faults' <= 2, At("recovery") \in dirs',
                    NEW o \in Publishers, Kind(o) = "overview", ReadOld(o)'
             PROVE  /\ \A c \in Publishers : Kind(c) = "perfetto" => ~ReadOld(c)'
                    /\ At("perfetto") \in dirs' => Trace("trace")' >= Listed(RunIdentity)'
  BY DEF NotBothOld
<1>1. faults \in Nat /\ faults' \in Nat /\ faults <= 2
  BY <1>g DEF Grows, EventsCounted
<1>2. CASE At("recovery") \in dirs
  <2>1. ReadOld(o)
    BY <1>2, OldBefore
  <2>2. /\ \A c \in Publishers : Kind(c) = "perfetto" => ~ReadOld(c)
        /\ At("perfetto") \in dirs => Trace("trace") >= Listed(RunIdentity)
    BY <1>1, <1>2, <2>1 DEF NotBothOld
  <2>3. \A c \in Publishers : Kind(c) = "perfetto" => ~ReadOld(c)'
    BY <1>2, <2>2, OldBefore
  <2>4. Listed(RunIdentity)' = Listed(RunIdentity) /\ Listed(RunIdentity) \in Nat
    BY <1>g, <1>2 DEF Grows, Listed, Outputs, CloseoutListsEvents, ListsEvents, EventsCounted
  <2>5. CASE At("perfetto") \in dirs
    <3>1. Trace("trace") \in Nat /\ Trace("trace")' \in Nat /\ Trace("trace") <= Trace("trace")'
      BY <1>g, <2>5 DEF Grows, Outputs, TraceIsOfRun
    <3> QED BY <2>2, <2>3, <2>4, <2>5, <3>1
  <2>6. ASSUME At("perfetto") \notin dirs, At("perfetto") \in dirs'
        PROVE  Trace("trace")' >= Listed(RunIdentity)'
    <3>1. PICK p \in Publishers : Rename(p) /\ At(Kind(p)) \notin dirs
      <4>1. ASSUME NEW p \in Publishers, Start(p) \/ Step(p) \/ Fails(p) \/ Dies(p),
                   ~(Rename(p) /\ At(Kind(p)) \notin dirs)
            PROVE  FALSE
        BY <2>6, <4>1, StepKeepsOthers DEF KeepsOthers, Kinds
      <4> QED BY <2>6, <4>1 DEF Next, Tampered, vars
    <3>2. Kind(p) = "perfetto"
      BY <2>6, <3>1, RenameMoves DEF Kinds
    <3>3. Trace("trace")' = loaded[p].events
      BY <3>1, <3>2, RenamedPayload, OutputNames DEF Trace, Payload
    <3>4. Reads(p)
      BY <3>1, <3>2 DEF Rename, Reads, Matched, Working, Checking
    <3>5. ~ReadOld(p) /\ loaded[p].events \in Nat
      BY <2>2, <3>2, <3>4 DEF HasRead, EventsCounted
    <3> QED BY <2>4, <3>3, <3>4, <3>5 DEF ReadOld
  <2> QED BY <2>3, <2>5, <2>6
<1>3. CASE At("recovery") \notin dirs
  <2>1. PICK p \in Publishers : Rename(p) /\ At(Kind(p)) \notin dirs
    <3>1. ASSUME NEW p \in Publishers, Start(p) \/ Step(p) \/ Fails(p) \/ Dies(p),
                 ~(Rename(p) /\ At(Kind(p)) \notin dirs)
          PROVE  FALSE
      BY <1>3, <3>1, StepKeepsOthers DEF KeepsOthers, Kinds
    <3> QED BY <1>3, <3>1 DEF Next, Tampered, vars
  <2>2. Kind(p) = "recovery"
    BY <1>3, <2>1, RenameMoves DEF Kinds
  <2>3. At("perfetto") \notin dirs'
    <3>1. At("perfetto") \notin dirs
      BY <1>3 DEF Outputs, TraceIsOfRun
    <3> QED BY <2>1, <2>2, <3>1, RenameMoves DEF Kinds
  <2>4. Listed(RunIdentity)' \in 0..Recorded
    BY <2>1, <2>2, RenamedPayload DEF ListsEvents, Listed, RunIdentity
  <2>5. ASSUME NEW q \in Publishers, ReadOld(q)', Kind(q) # "recovery"
        PROVE  Started(q) = 1 /\ Recorded >= 1
    <3>1. q # p
      BY <2>2, <2>5
    <3>2. pc'[q] = pc[q] /\ loaded'[q] = loaded[q]
      BY <2>1, <3>1, OthersWait DEF Step
    <3>3. Reads(q) /\ loaded[q].events < Listed(RunIdentity)'
      BY <2>5, <3>2 DEF ReadOld, Reads
    <3>4. loaded[q].events \in Nat
      BY <3>3 DEF HasRead, EventsCounted
    <3>5. attempt[q] >= 1
      BY <3>3 DEF Reads, Matched, Working, Checking, Inv, InHand
    <3> QED BY <2>4, <3>3, <3>4, <3>5 DEF Started, EventsCounted
  <2>6. ASSUME NEW c \in Publishers, Kind(c) = "perfetto", ReadOld(c)' PROVE FALSE
    <3>1. Started(c) = 1 /\ Started(o) = 1 /\ Recorded >= 1
      BY <2>5, <2>6
    <3>2. Started(c) + Started(o) + Recorded <= faults
      BY <1>3, <2>6 DEF EarlyIsAFault
    <3> QED BY <1>1, <3>1, <3>2 DEF EventsCounted
  <2> QED BY <2>3, <2>6
<1> QED BY <1>2, <1>3

LEMMA NextOneRun == Inv /\ OneRun /\ [Next]_vars => OneRun'
<1> SUFFICES ASSUME Inv, OneRun, [Next]_vars PROVE OneRun'
  OBVIOUS
<1>1. EventsCounted' /\ OutputsWhole'
  BY StepGrows, StepWhole DEF OneRun
<1>2. \A q \in Publishers : HasRead(q)' /\ HasWritten(q)'
  BY PublishersOneRun
<1> QED BY <1>1, <1>2, StepOutputs, StepEarly, StepNotBoth DEF OneRun

\* OneRunThroughout reads the trace through its directory.
LEMMA OneRunIsRead == Inv /\ OneRun => (faults <= 2 => OneRunThroughout)
<1> SUFFICES ASSUME Inv, OneRun, faults <= 2 PROVE OneRunThroughout
  OBVIOUS
<1>1. ASSUME At("perfetto") \in dirs
      PROVE  /\ At("recovery") \in dirs
             /\ TraceFiles["conversion_manifest"].data.run = RunIdentity
  <2>1. "conversion_manifest" \in Names(At("perfetto"))
    BY <1>1, OutputFiles, NamesOf DEF Inv, OneRun
  <2>2. TraceFiles["conversion_manifest"].data = Trace("conversion_manifest")
    BY <2>1 DEF TraceFiles, Trace
  <2> QED BY <1>1, <2>2 DEF OneRun, Outputs, TraceIsOfRun
<1>2. ASSUME At("overview") \in dirs
      PROVE  /\ Report.events = Listed(RunIdentity)
             /\ Report.trace.data = Report.events
  BY <1>2 DEF OneRun, Outputs, ReportIsOfRun
<1> QED BY <1>1, <1>2 DEF OneRunThroughout, Report, Listed, HybridEvents

\* Whatever happens, a trace is of the run its closeout lists, a report shows a trace
\* of just the events it shows, and both are there only behind a closeout
\* (converter.py: _assert_input_unchanged, overview/loader.py: load_matching_perfetto).
ProductsAgree ==
    /\ At("perfetto") \in dirs =>
          At("recovery") \in dirs /\ Trace("conversion_manifest").run = RunIdentity
    /\ At("overview") \in dirs => At("recovery") \in dirs /\ Report.trace.data = Report.events
THEOREM ProductsAgreeHolds == Spec => []ProductsAgree
<1>1. OneRun => ProductsAgree
  BY DEF OneRun, Outputs, TraceIsOfRun, ReportIsOfRun, ProductsAgree
<1> QED BY <1>1, StagingIsOwned, InitOneRun, NextOneRun, PTL DEF Spec

\* While no more than two changes, failures, deaths and early starts have occurred, all
\* products speak of one run: that of the closeout, events and trace and report
\* (converter.py: _assert_input_unchanged, generator.py: _generation_input_check).
THEOREM OneRunUpToTwoFaults == Spec => [](faults <= 2 => OneRunThroughout)
BY StagingIsOwned, InitOneRun, NextOneRun, OneRunIsRead, PTL DEF Spec

=============================================================================
