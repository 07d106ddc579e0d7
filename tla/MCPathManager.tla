---------------------------- MODULE MCPathManager ----------------------------
(* Small instances of PathManager. *)
EXTENDS PathManager, TLC

CONSTANTS n, regexp, p1, p2, c, a, b, nobody, handler

Section(x, k, s) == [y \in {x} |-> [name |-> x, kind |-> k, setting |-> s]]
Both(f, g) == [y \in DOMAIN f \cup DOMAIN g |-> IF y \in DOMAIN f THEN f[y] ELSE g[y]]

(* A name of its own, the name of a regexp, both; and each kind of source. *)
SomeConfigurations ==
    {Section(n, "publisher", a), Section(regexp, "publisher", b),
     Both(Section(n, "static", a), Section(regexp, "publisher", b))}

(* Both hot and cold changes between two. *)
FewConfigurations ==
    {Section(regexp, "publisher", b),
     Both(Section(n, "static", a), Section(regexp, "publisher", b))}

TwoKinds == {"publisher", "static"}

PathSymmetry == Permutations(Paths)

=============================================================================
