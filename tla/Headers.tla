------------------------------ MODULE Headers ------------------------------
(***************************************************************************)
(* Headers: entries in the order they go on the wire, repeated names kept  *)
(* apart.  A name stands for all its spellings.                            *)
(***************************************************************************)
EXTENDS Naturals, Sequences, Subsequences

Header(name, value) == [name |-> name, value |-> value]

\* Where the entries of a name are.
Named(headers, name) == {i \in DOMAIN headers : headers[i].name = name}

\* contains()
HasHeader(headers, name) == Named(headers, name) # {}

\* get_all()
GetAll(headers, name) == Entries(headers, Named(headers, name))

Erase(headers, name) == Entries(headers, DOMAIN headers \ Named(headers, name))

\* A variant that keeps what the name had before.
SetAppending(headers, name, value) == Append(headers, Header(name, value))

\* set(): the name moves to the end.
Set(headers, name, value) == Append(Erase(headers, name), Header(name, value))

\* set() for each of other headers, one after the other.
SetAll(headers, other) ==
    LET set[n \in 0..Len(other)] ==
          IF n = 0 THEN headers ELSE Set(set[n - 1], other[n].name, other[n].value)
    IN  set[Len(other)]

\* merge_missing(): names are missing if they were before the merge, so that all the
\* entries of a repeated one come along.
MergeMissing(headers, other) ==
    headers \o Entries(other, {i \in DOMAIN other : ~HasHeader(headers, other[i].name)})

=============================================================================
