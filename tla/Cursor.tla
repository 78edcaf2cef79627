------------------------------- MODULE Cursor -------------------------------
(***************************************************************************)
(* A cursor of LMDB over one b+tree with sorted duplicates, as sph-db uses *)
(* it.  The tree is a set of entries [key, data] and a cursor stands on an *)
(* entry, or where a deleted entry was: what follows it is the same.  A    *)
(* lookup is the set of entries it lands on: one, or none for              *)
(* MDB_NOTFOUND.  The orders are the comparison functions that             *)
(* db_open_system installs.                                                *)
(***************************************************************************)
CONSTANTS KeyBefore(_, _), DataBefore(_, _)

Before(d, e) == KeyBefore(d.key, e.key) \/ (d.key = e.key /\ DataBefore(d.data, e.data))

Least(entries) ==
  IF entries = {} THEN {} ELSE {CHOOSE e \in entries : \A d \in entries : d = e \/ Before(e, d)}

First(tree) == Least(tree)
SetKey(tree, key) == Least({e \in tree : e.key = key})
SetRange(tree, key) == Least({e \in tree : e.key = key \/ KeyBefore(key, e.key)})
GetBoth(tree, key, data) == {e \in tree : e.key = key /\ e.data = data}
GetBothRange(tree, key, data) ==
  Least({e \in tree : e.key = key /\ (e.data = data \/ DataBefore(data, e.data))})
NextDup(tree, at) == Least({e \in tree : e.key = at.key /\ DataBefore(at.data, e.data)})
NextNodup(tree, at) == Least({e \in tree : KeyBefore(at.key, e.key)})
=============================================================================
