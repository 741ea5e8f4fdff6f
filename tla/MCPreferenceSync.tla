-------------------------- MODULE MCPreferenceSync --------------------------
(* TLC instance of PreferenceSync: two tabs, a plain field, a keyed field    *)
(* with an entry, and a value the server refuses.                            *)
EXTENDS PreferenceSync

=============================================================================
