--------------------------- MODULE MCArrowTransfer ---------------------------
EXTENDS ArrowTransfer

Unchanged == [s \in Schema \cup {Default} |-> s]

\* No map, and one that sends the default schema elsewhere.
MCTranslation ==
    {Unchanged} \cup {[Unchanged EXCEPT ![Default] = s] : s \in Schema}
=============================================================================
