------------------------- MODULE MCDialectDiscovery -------------------------
EXTENDS DialectDiscovery, TLC

\* Only the session links settings and slideshow: one of them is varied at a
\* time, beside a TV that answers the other with values.  Only the aggregate
\* answer has to parse to be believed.
MCTvs ==
  {t \in [Commands -> Ways] :
     /\ \A c \in Commands \ {"aggregate"} : t[c] # "odd"
     /\ \/ \A c \in Settings : t[c] = "value"
        \/ \A c \in Commands \ Settings : t[c] = "value"}

\* The two polls behave alike.
ReaderSymmetry == Permutations(Readers)
=============================================================================
