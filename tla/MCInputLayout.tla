--------------------------- MODULE MCInputLayout ---------------------------
(* Instances of InputLayout for TLC.  f1, f2 are element arrays, c1, c2    *)
(* signatures: c2 disagrees with the types of f1, and f2 cannot be matched *)
(* to c2 at all.                                                           *)
EXTENDS InputLayout, TLC

CONSTANTS s1, s2, e1, e2, f1, f2, c1, c2

UnresolvableDef == {<<f2, c2>>}
RetypedDef == {<<f1, c2>>, <<f2, c1>>}

Symmetry == Permutations(Shader) \union Permutations(Layout)
=============================================================================
