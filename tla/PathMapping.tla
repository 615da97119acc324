----------------------------- MODULE PathMapping -----------------------------
(***************************************************************************)
(* Path mappings of settings.py: COCOINDEX_CODE_HOST_PATH_MAPPING between  *)
(* container and host paths, and COCOINDEX_CODE_DB_PATH_MAPPING from       *)
(* project roots to database directories.  A path is the sequence of its   *)
(* names; a mapping is a sequence of [source, target], the first match     *)
(* wins.                                                                   *)
(***************************************************************************)
EXTENDS Naturals, Sequences, SequencesExt

CONSTANTS
    SettingsDir,    \* the name ".cocoindex_code"
    Starts          \* Starts[n]: the names whose text begins with the text of n

\* Mutant: the texts are compared, so /ab is under /a.
UnderAsText(path, dir) ==
    /\ Len(dir) <= Len(path)
    /\ \A i \in DOMAIN dir : IF i < Len(dir) THEN path[i] = dir[i] ELSE path[i] \in Starts[dir[i]]
\* resolved == src or resolved.is_relative_to(src)
Under(path, dir) == IsPrefix(dir, path)

\* dst / path.relative_to(src)
Rebase(path, from, to) == to \o SubSeq(path, Len(from) + 1, Len(path))

Side(mapping, reverse) == IF reverse THEN mapping.target ELSE mapping.source

\* The position of the first mapping that matches, or 0.
FirstMatch(mappings, path, reverse) ==
    SelectInSeq(mappings, LAMBDA m : Under(path, Side(m, reverse)))

ApplyMapping(mappings, path, reverse) ==
    LET i == FirstMatch(mappings, path, reverse)
    IN  IF i = 0 THEN path
        ELSE Rebase(path, Side(mappings[i], reverse), Side(mappings[i], ~reverse))

FormatForDisplay(mappings, path) == ApplyMapping(mappings, path, FALSE)
NormalizeInput(mappings, path) == ApplyMapping(mappings, path, TRUE)

ResolveDbDir(mappings, root) ==
    LET i == FirstMatch(mappings, root, FALSE)
    IN  IF i = 0 THEN Append(root, SettingsDir)
        ELSE Rebase(root, mappings[i].source, mappings[i].target)

-----------------------------------------------------------------------------
\* No target lies in another: the deployments the mappings are meant for.
TargetsApart(mappings) ==
    \A i, j \in DOMAIN mappings : i # j => ~IsPrefix(mappings[i].target, mappings[j].target)

Mapped(mappings, path) == FirstMatch(mappings, path, FALSE) # 0

(***************************************************************************)
(* Two paths survive the way out and in: when no target lies in another, a *)
(* mapped path shown to the user and given back is that path (client.py    *)
(* normalizes what format_path_for_display printed), and two projects that *)
(* are mapped never share a database directory (resolve_db_dir), whatever  *)
(* the sources.                                                            *)
(***************************************************************************)
MappingsInvert(mappings, p, q) ==
    TargetsApart(mappings) =>
        /\ Mapped(mappings, p) => NormalizeInput(mappings, FormatForDisplay(mappings, p)) = p
        /\ p # q /\ Mapped(mappings, p) /\ Mapped(mappings, q) =>
               ResolveDbDir(mappings, p) # ResolveDbDir(mappings, q)
=============================================================================
