------------------------------ MODULE Selections ------------------------------
\* Array.prototype.filter, by the set of what is kept.
EXTENDS Integers, Sequences

Among(s, G) ==
  LET kept[n \in 0 .. Len(s)] ==
        IF n = 0 THEN << >> ELSE IF s[n] \in G THEN Append(kept[n - 1], s[n]) ELSE kept[n - 1]
  IN kept[Len(s)]
=============================================================================
