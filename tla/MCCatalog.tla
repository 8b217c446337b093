------------------------------ MODULE MCCatalog ------------------------------
(* Instances of CatalogRepricing for TLC.                                    *)
EXTENDS CatalogRepricing, TLC

Symmetry == Permutations(Syncers) \cup Permutations(Requests)
=============================================================================
