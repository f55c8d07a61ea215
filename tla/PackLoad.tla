------------------------------ MODULE PackLoad ------------------------------
(***************************************************************************)
(* A plan reads the indexed packs of a region (indexed/load.rs) from a     *)
(* directory that a rebuild may be changing (convert.rs).  The manifest is *)
(* read once and compared with the extract; every tile is then opened on   *)
(* its own.  An archive carries the extract and the format version it was  *)
(* written with; of the two only the format is in its preamble.            *)
(***************************************************************************)
EXTENDS Integers, FiniteSets

CONSTANTS
  Plans,
  Tiles,     \* the graph tiles of the region
  Wanted,    \* Wanted[p]: the tiles that meet the box of plan p
  MaxPbf,    \* bound on the versions of the extract
  MaxFormat  \* bound on the format versions of the program

ASSUME LoadAssumption ==
  /\ Wanted \in [Plans -> SUBSET Tiles]
  /\ MaxPbf \in Nat \ {0} /\ MaxFormat \in Nat \ {0}

VARIABLES
  files,    \* files[a]: how archive a was built, None if there is none
  manifest, \* what the manifest names, None if there is none
  pbf,      \* the version of the extract in the directory
  format,   \* the format version of this program
  load,     \* load[p]: "no", "mapping", "loaded" or "missed"
  got,      \* got[p]: the tiles plan p has mapped, with how they were built
  stirred   \* history: plans during whose load the directory changed

loadVars == <<files, manifest, pbf, format, load, got, stirred>>
dirOf == <<files, manifest, pbf, format>>

Archives == Tiles \cup {"poi", "wetland"}
Build == [pbf : 1..MaxPbf, format : 1..MaxFormat]
None == [pbf |-> 0, format |-> 0]
Current == [pbf |-> pbf, format |-> format]

LoadTypeOK ==
  /\ files \in [Archives -> Build \cup {None}]
  /\ manifest \in Build \cup {None}
  /\ pbf \in 1..MaxPbf /\ format \in 1..MaxFormat
  /\ load \in [Plans -> {"no", "mapping", "loaded", "missed"}]
  /\ got \in [Plans -> SUBSET (Tiles \X Build)]
  /\ stirred \subseteq Plans

\* Every plan that is in the middle of a load sees a change of the directory.
Stir == stirred' = stirred \cup {p \in Plans : load[p] = "mapping"}

-----------------------------------------------------------------------------

\* Mutant of Ready: the extract's fingerprint is not compared.
ReadyAnyExtract ==
  manifest.format = format /\ manifest # None /\ \A a \in Archives : files[a] # None

\* status_for_pbf: the manifest is of this extract and of this program, and
\* every archive it names is there.  No archive is opened.
Ready == manifest = Current /\ \A a \in Archives : files[a] # None

\* No manifest, one that is not ready, or no tile in the box: fall back.
ReadManifest(p) ==
  /\ load[p] = "no"
  /\ load' = [load EXCEPT ![p] = IF Ready /\ Wanted[p] # {} THEN "mapping" ELSE "missed"]
  /\ UNCHANGED <<dirOf, got, stirred>>

Mapped(p) == {m[1] : m \in got[p]}

\* One tile is mapped and its preamble checked; the tiles are taken in
\* parallel, and the first that cannot be had ends the load.
MapTile(p, t) ==
  /\ load[p] = "mapping"
  /\ t \in Wanted[p] \ Mapped(p)
  /\ IF files[t].format = format
     THEN got' = [got EXCEPT ![p] = @ \cup {<<t, files[t]>>}] /\ UNCHANGED load
     ELSE load' = [load EXCEPT ![p] = "missed"] /\ UNCHANGED got
  /\ UNCHANGED <<dirOf, stirred>>

\* The tiles are merged; it is a miss when none has a link in the plan's box.
Merge(p) ==
  /\ load[p] = "mapping"
  /\ Mapped(p) = Wanted[p]
  /\ \E to \in {"loaded", "missed"} : load' = [load EXCEPT ![p] = to]
  /\ UNCHANGED <<dirOf, got, stirred>>

-----------------------------------------------------------------------------

\* A rebuild without a checkpoint first removes the tiles it finds.
SweepTiles ==
  /\ files' = [a \in Archives |-> IF a \in Tiles THEN None ELSE files[a]]
  /\ Stir
  /\ UNCHANGED <<manifest, pbf, format, load, got>>

\* An archive appears under its final name, whole, by rename.
WriteArchive(a) ==
  /\ files' = [files EXCEPT ![a] = Current]
  /\ Stir
  /\ UNCHANGED <<manifest, pbf, format, load, got>>

SaveManifest ==
  /\ manifest' = Current
  /\ Stir
  /\ UNCHANGED <<files, pbf, format, load, got>>

\* A download replaces the extract.
NewExtract ==
  /\ pbf < MaxPbf
  /\ pbf' = pbf + 1
  /\ Stir
  /\ UNCHANGED <<files, manifest, format, load, got>>

-----------------------------------------------------------------------------

\* A plan that got its graph from packs while nobody touched the directory
\* has whole tiles of the extract that is there, whatever was killed, left
\* half rebuilt or written by an older program before (load.rs:1, "never
\* interpret mismatched versions").
QuietLoadIsCurrent ==
  [][\A p \in Plans : load[p] = "mapping" /\ load'[p] = "loaded" /\ p \notin stirred =>
       got[p] = Wanted[p] \X {Current}]_loadVars

=============================================================================
