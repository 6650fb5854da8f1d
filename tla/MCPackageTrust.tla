--------------------------- MODULE MCPackageTrust ---------------------------
(***************************************************************************)
(* Two attempts; a release and its successors, whose versions grow in the  *)
(* first two parts while the patch shrinks.                                *)
(***************************************************************************)
EXTENDS PackageTrust

Package(version, signature, source, claims) ==
  [version |-> version, signature |-> signature, source |-> source,
   claimsSystemComponent |-> claims]

v1 == <<1, 0, 2>>
v2 == <<1, 1, 1>>
v3 == <<2, 0, 0>>

\* Every signature, every source, every kind of claim, and an older and a
\* newer version of each package that can be installed.
MCPackages ==
  { Package(v, sig, "LokoStore", FALSE) : v \in {v1, v2}, sig \in {"VerifiedPublisher", "Unsigned"} }
  \cup { Package(v, "KnownPublisher", "LocalFile", FALSE) : v \in {v1, v2} }
  \cup { Package(v1, "UnknownPublisher", "Download", FALSE),
         Package(v2, "Invalid", "Download", FALSE),
         Package(v2, "LokoOfficial", "SystemUpdate", TRUE),
         Package(v3, "LokoOfficial", "LocalFile", TRUE),
         Package(v3, "Unsigned", "SystemUpdate", TRUE),
         Package(v3, "LokoOfficial", "Download", FALSE) }

=============================================================================
