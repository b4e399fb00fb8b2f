--------------------------------- MODULE GoMaps ---------------------------------
(* A Go map is a function whose domain is its keys.                         *)

\* m[key] = value
Assign(m, key, value) ==
    [k \in DOMAIN m \cup {key} |-> IF k = key THEN value ELSE m[k]]
=============================================================================
