-------------------------- MODULE DetachedManifest --------------------------
(***************************************************************************)
(* The detached inventories that vouch for a published directory            *)
(* (perfetto/artifacts.py; schema/artifact_integrity.py has the same ones    *)
(* for the closeout).  A file is <<root, name>>; an inventory is a function   *)
(* from the files of some roots to what identifies their contents (size,      *)
(* digest, time of modification).  The manifest and its validation lie in     *)
(* the output root, and are the only files left out.                         *)
(***************************************************************************)
LOCAL INSTANCE FiniteSets

CONSTANTS Refused, None

ManifestName == "artifact_manifest"
ValidationName == "artifact_manifest_validation"

DetachedManifestOnly(output) == {<<output, ManifestName>>}   \* mutant: the sidecar is listed
DetachedOutputs(output) == {<<output, ManifestName>>, <<output, ValidationName>>}

\* files: the files of all directories; at: the directory of each root.
Inventory(files, at, output) ==
    LET keys == {<<root, f[2]>> : root \in DOMAIN at, f \in DOMAIN files}
    IN  [k \in {k \in keys \ DetachedOutputs(output) : <<at[k[1]], k[2]>> \in DOMAIN files} |->
            files[<<at[k[1]], k[2]>>]]

\* A manifest of what is there, which has to include what is required.
BuildManifest(inventory, roots, output, required) ==
    IF /\ required \subseteq DOMAIN inventory
       /\ required \cap DetachedOutputs(output) = {}
    THEN [output |-> output, roots |-> roots, required |-> required,
          detached |-> DetachedOutputs(output), entries |-> inventory]
    ELSE Refused

\* The contract a manifest read back has to keep.
ManifestAccepted(manifest, roots, output) ==
    /\ manifest.output = output
    /\ manifest.roots = roots
    /\ manifest.detached = DetachedOutputs(output)
    /\ \A k \in DOMAIN manifest.entries : k[1] \in roots /\ k \notin manifest.detached
    /\ manifest.required \subseteq DOMAIN manifest.entries

MismatchesOfListed(entries, inventory) ==   \* mutant: a change is not looked for
    {<<"missing", k>> : k \in DOMAIN entries \ DOMAIN inventory}
    \cup {<<"unexpected", k>> : k \in DOMAIN inventory \ DOMAIN entries}

Mismatches(entries, inventory) ==
    {<<"missing", k>> : k \in DOMAIN entries \ DOMAIN inventory}
    \cup {<<"unexpected", k>> : k \in DOMAIN inventory \ DOMAIN entries}
    \cup {<<"changed", k>> :
            k \in {k \in DOMAIN entries \cap DOMAIN inventory : entries[k] # inventory[k]}}

\* The report of one validation, which names the manifest it is about.
ValidateManifest(manifest, inventory) ==
    [of |-> manifest, mismatches |-> Mismatches(manifest.entries, inventory),
     valid |-> Mismatches(manifest.entries, inventory) = {},
     checked |-> Cardinality(DOMAIN manifest.entries)]

\* A stored report counts when it is about this manifest, and a fresh one says
\* the same and finds nothing.
VerifyStoredSidecar(manifest, stored, inventory, roots, output) ==
    /\ ManifestAccepted(manifest, roots, output)
    /\ stored # None
    /\ stored.of = manifest
    /\ stored = ValidateManifest(manifest, inventory)
    /\ stored.valid

\* The one file a closeout may lack: the control record that early campaigns
\* wrote after it.
AcceptDeferred(report, deferred) ==
    IF report.mismatches = {<<"unexpected", deferred>>}
      THEN [report EXCEPT !.mismatches = {}, !.valid = TRUE] ELSE report

=============================================================================
