------------------------------ MODULE ReconPlan -----------------------------
(* The batch planner, bench/scorer/recon_plan.py, its copy in the shell of   *)
(* recon-plan.sh, and the check of a plan by the checkpoint,                 *)
(* _validate_recon_plan of _mark_batch_covered.py.                           *)
(*                                                                           *)
(* Paths and top-level directories are numbers in the order of their names.  *)
(* A tree is a record: files, excluded (the files a glob drops), and for     *)
(* every file its directory dir and its size, None where lstat failed.       *)
EXTENDS Integers, Sequences, FiniteSets, SequencesExt

CONSTANTS
  None,                 \* no value
  Tier                  \* directory -> 0 critical, 1 normal, 2 low

(* The members of S in the strict order Before.                              *)
Ranked(S, Before(_, _)) ==
  [i \in 1..Cardinality(S) |->
     CHOOSE x \in S : Cardinality({y \in S : Before(y, x)}) = i - 1]
InOrder(S) == Ranked(S, LAMBDA a, b : a < b)

(* The elements of s at the places I; those that pass a test; s taken      *)
(* element by element, from base.                                          *)
Picked(s, I) == LET at == InOrder(I) IN [n \in DOMAIN at |-> s[at[n]]]
Select(s, Test(_)) == Picked(s, {i \in DOMAIN s : Test(s[i])})
Folded(Op(_, _), base, s) ==
  LET f[n \in 0..Len(s)] == IF n = 0 THEN base ELSE Op(f[n - 1], s[n]) IN f[Len(s)]

PositiveInt(value, default) ==
  IF value # None /\ value > 0 THEN value ELSE default

IsLargeRepoMode(count, threshold) == count > threshold

InScope(tree) == tree.files \ tree.excluded

Flush(acc) ==
  IF acc.current = <<>> THEN acc
  ELSE [done |-> Append(acc.done, acc.current), current |-> <<>>, bytes |-> 0]

(* Mutant: the open batch is not flushed before a large file.                *)
PlaceOver(tree, maxFiles, maxBytes, acc, f) ==
  LET size == tree.size[f]
      full == /\ acc.current # <<>>
              /\ Len(acc.current) >= maxFiles \/ acc.bytes + size > maxBytes
      open == IF full THEN Flush(acc) ELSE acc
  IN IF size = None \/ size > maxBytes
     THEN Flush([acc EXCEPT !.current = <<f>>])
     ELSE [open EXCEPT !.current = Append(@, f), !.bytes = @ + size]

(* A file without a size, or one over the cap, is a batch of its own; any    *)
(* other opens a new batch when the open one has no room for it.             *)
Place(tree, maxFiles, maxBytes, acc, f) ==
  LET size == tree.size[f]
      full == /\ acc.current # <<>>
              /\ Len(acc.current) >= maxFiles \/ acc.bytes + size > maxBytes
      open == IF full THEN Flush(acc) ELSE acc
  IN IF size = None \/ size > maxBytes
     THEN Flush([Flush(acc) EXCEPT !.current = <<f>>])
     ELSE [open EXCEPT !.current = Append(@, f), !.bytes = @ + size]

Chunks(tree, d, maxFiles, maxBytes) ==
  LET files == InOrder({f \in InScope(tree) : tree.dir[f] = d})
      start == [done |-> <<>>, current |-> <<>>, bytes |-> 0]
  IN Flush(Folded(LAMBDA acc, f : Place(tree, maxFiles, maxBytes, acc, f), start, files)).done

OrderedDirs(tree) ==
  Ranked({tree.dir[f] : f \in InScope(tree)},
         LAMBDA a, b : Tier[a] < Tier[b] \/ (Tier[a] = Tier[b] /\ a < b))

Batch(id, d, files, deferred) ==
  [id |-> id, tier |-> Tier[d], files |-> files, deferred |-> deferred]

(* caps: threshold, firstPass, maxFiles and maxBytes; the last two fall back *)
(* to defaultFiles and defaultBytes when they are not positive.              *)
BuildPlan(tree, caps) ==
  LET maxFiles == PositiveInt(caps.maxFiles, caps.defaultFiles)
      maxBytes == PositiveInt(caps.maxBytes, caps.defaultBytes)
      large == IsLargeRepoMode(Cardinality(InScope(tree)), caps.threshold)
      dirs == OrderedDirs(tree)
      groups == FlattenSeq([i \in DOMAIN dirs |->
                  LET chunks == Chunks(tree, dirs[i], maxFiles, maxBytes)
                  IN [k \in DOMAIN chunks |-> [dir |-> dirs[i], files |-> chunks[k]]]])
  IN [batches |-> [i \in DOMAIN groups |->
                     Batch(i, groups[i].dir, groups[i].files, large /\ i > caps.firstPass)],
      filesInScope |-> Cardinality(InScope(tree)),
      batchCount |-> Len(groups),
      large |-> large,
      budget |-> IF large THEN caps.firstPass ELSE None,
      covered |-> <<>>,
      admission |-> None]

(* The fallback of recon-plan.sh without python3 goes once through all the *)
(* files in the order of their directories; a file of another directory, a *)
(* large one and one without a size end the open batch.                    *)
ShellPlace(tree, maxFiles, maxBytes, acc, f) ==
  LET isolated == tree.size[f] = None \/ tree.size[f] > maxBytes
      full == \/ isolated
              \/ acc.current # <<>> /\ \/ tree.dir[Last(acc.current)] # tree.dir[f]
                                       \/ Len(acc.current) >= maxFiles
                                       \/ acc.bytes + tree.size[f] > maxBytes
      open == IF full THEN Flush(acc) ELSE acc
  IN IF isolated THEN Flush([open EXCEPT !.current = <<f>>])
     ELSE [open EXCEPT !.current = Append(@, f), !.bytes = @ + tree.size[f]]

OrderedPairs(tree) ==
  Ranked(InScope(tree),
         LAMBDA a, b : LET d == tree.dir[a]  e == tree.dir[b]
                       IN \/ Tier[d] < Tier[e]
                          \/ Tier[d] = Tier[e] /\ (d < e \/ (d = e /\ a < b)))

ShellPlan(tree, caps) ==
  LET maxFiles == PositiveInt(caps.maxFiles, caps.defaultFiles)
      maxBytes == PositiveInt(caps.maxBytes, caps.defaultBytes)
      large == Cardinality(InScope(tree)) > caps.threshold
      start == [done |-> <<>>, current |-> <<>>, bytes |-> 0]
      meta == Flush(Folded(LAMBDA acc, f : ShellPlace(tree, maxFiles, maxBytes, acc, f),
                           start, OrderedPairs(tree))).done
  IN [batches |-> [i \in DOMAIN meta |->
                     Batch(i, tree.dir[meta[i][1]], meta[i], large /\ i > caps.firstPass)],
      filesInScope |-> Cardinality(InScope(tree)),
      batchCount |-> Len(meta),
      large |-> large,
      budget |-> IF large THEN caps.firstPass ELSE None,
      covered |-> <<>>,
      admission |-> None]

Ids(recon) == {recon.batches[i].id : i \in DOMAIN recon.batches}
BatchOf(recon, id) == recon.batches[CHOOSE i \in DOMAIN recon.batches : recon.batches[i].id = id]
FilesOf(recon, ids) == UNION {ToSet(BatchOf(recon, id).files) : id \in ids}

(* What the checkpoint demands of recon.json before it covers anything.      *)
ValidateReconPlan(recon) ==
  /\ recon.batches # <<>>
  /\ \A i, k \in DOMAIN recon.batches :
       i # k => /\ recon.batches[i].id # recon.batches[k].id
                /\ ToSet(recon.batches[i].files) \cap ToSet(recon.batches[k].files) = {}
  /\ \A i \in DOMAIN recon.batches :
       /\ recon.batches[i].files # <<>>
       /\ IsInjective(recon.batches[i].files)
  /\ recon.batchCount = Len(recon.batches)
  /\ recon.filesInScope = Cardinality(FilesOf(recon, Ids(recon)))
  /\ IsInjective(recon.covered)
  /\ ToSet(recon.covered) \subseteq Ids(recon)
=============================================================================
