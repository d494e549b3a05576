--------------------------- MODULE MCProvisioning ---------------------------
(* Small instances of Provisioning for TLC; lengths and symmetries are MCOcsVouchers'. *)
EXTENDS Provisioning, MCOcsVouchers

\* Bound: only starts whose posts were all stored.
StartStoresAll ==
    main \in {"verify", "serving"} =>
        \A n \in Shared : shared[n] \notin {Nobody} \cup (1 .. starts - 1)
=============================================================================
