------------------------------- MODULE MCPath -------------------------------
(***************************************************************************)
(* Small instances of Path.                                                *)
(***************************************************************************)
EXTENDS Path, TLC

CONSTANTS r1, r2, d1, p1, p2, s1, s2, s3, s4, a, b

BaseConf ==
    [source |-> "publisher", sourceOnDemand |-> FALSE, runOnDemand |-> FALSE,
     overridePublisher |-> FALSE, maxReaders |-> 0, fallback |-> FALSE,
     regexp |-> FALSE, record |-> NoRecord]

(* Static sources, on demand or always on, with room for one reader or for *)
(* any number; a regexp path must be on demand.                            *)
StaticConfs ==
    {[BaseConf EXCEPT !.source = "static", !.sourceOnDemand = od, !.maxReaders = m] :
        od \in BOOLEAN, m \in {0, 1}}
    \cup {[BaseConf EXCEPT !.source = "static", !.sourceOnDemand = TRUE, !.regexp = TRUE]}

(* Publishers, started on demand or not, that may override each other or   *)
(* not, on static and regexp paths.                                        *)
PublisherConfs ==
    {[BaseConf EXCEPT !.runOnDemand = od, !.overridePublisher = ov, !.maxReaders = m,
                      !.regexp = re] :
        od \in BOOLEAN, ov \in BOOLEAN, m \in {0, 1}, re \in BOOLEAN}

(* Recording is switched on and off, and its settings changed, by reloads, *)
(* under a static source, and under a publisher together with the regexp.  *)
RecordConfs ==
    {[BaseConf EXCEPT !.source = "static", !.sourceOnDemand = TRUE, !.record = rec] :
        rec \in {NoRecord, a, b}}
    \cup {[BaseConf EXCEPT !.overridePublisher = TRUE, !.regexp = re, !.record = rec] :
        re \in BOOLEAN, rec \in {NoRecord, a}}

RedirectConfs == {[BaseConf EXCEPT !.source = "redirect"]}

AllConfs == StaticConfs \cup PublisherConfs \cup RecordConfs \cup RedirectConfs

(* What on-demand sources and commands, and the limit of readers, differ   *)
(* in.                                                                     *)
LiveConfs ==
    {c \in StaticConfs : c.sourceOnDemand /\ (c.maxReaders = 1 \/ c.regexp)}
    \cup {c \in PublisherConfs : c.runOnDemand /\ c.maxReaders = 1 /\ ~c.regexp}

OnDemandPublisherConfs == {c \in PublisherConfs : c.runOnDemand /\ ~c.regexp /\ c.maxReaders = 0}

OnDemandStaticConfs == {c \in StaticConfs : c.sourceOnDemand}

Symmetry ==
    Permutations({s1, s2, s3, s4}) \cup Permutations({r1, r2}) \cup Permutations({p1, p2})

=============================================================================
