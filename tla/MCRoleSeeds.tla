---------------------------- MODULE MCRoleSeeds ----------------------------
(***************************************************************************)
(* Small instances of the role seeds.  Two companions may declare any id,  *)
(* the bundled presets cover one, and the operator has a persona of the    *)
(* same set to write.  One id is enough for the races of two calls over    *)
(* the default of a row; with two ids a declare of one row carries the     *)
(* other along.                                                            *)
(***************************************************************************)
EXTENDS RoleSeeds, TLC

CONSTANTS pa, pb

OneRole == {"scout"}
TwoRoles == {"scout", "coder"}
Only(id, p) == [NoRows EXCEPT ![id] = p]

MCPreset == Only("scout", pa)
MCBatch == {NoRows, [id \in Role |-> pa]} \union {Only(id, pb) : id \in Role}

\* Two ways to keep an instance small: the operator edits rows and no rules, or one
\* call of declare and revert at a time.
RowsOnly == \A i \in DOMAIN queue : queue[i].roles.rules = 0
OneCall == \A c, d \in Call : call[c].pc # "idle" /\ call[d].pc # "idle" => c = d

Symmetry == Permutations(Call) \union Permutations(SetName)
=============================================================================
