--------------------------- MODULE MCHandleTable ---------------------------
(***************************************************************************)
(* One object at a time, two processes and three handle numbers.           *)
(***************************************************************************)
EXTENDS HandleTable

\* A full directory, a document, a read-only view, a grant, and derivable
\* views with and without TRANSFER.
MCRightSets ==
  { DIR_FULL, RW, RO, RO \cup {"DERIVE"}, RO \cup {"DERIVE", "TRANSFER"}, RW \cup {"TRANSFER"},
    {"INSPECT", "TRANSFER"}, {"INSPECT", "TRANSFER", "DERIVE"}, {"INSPECT"} }

=============================================================================
