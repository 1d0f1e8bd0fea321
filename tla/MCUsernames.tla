---------------------------- MODULE MCUsernames ----------------------------
(***************************************************************************)
(* Domains that meet in one name: by their punctuation, by truncation, by  *)
(* truncation in front of a suffix, and with names that are reserved.      *)
(***************************************************************************)
EXTENDS Usernames

SomeDomains == {
    <<"a", "-", "b", ".", "c", "c">>,
    <<"a", ".", "b", ".", "c", "c">>,
    <<"a", "-", "-", "b", ".", "c", "c">>,
    <<"1", "a", ".", "c", "c">>,
    <<"w", "1", "a", ".", "c", "c">>,
    <<"a", ".", "b", ".", "c", "c", "c">>,
    <<"a", "-", "b", "-", "1", ".", "c", "c">>,
    <<"a", "b", "a", "b", ".", "c", "c">>,
    <<"a", "b", "a", "b", "a", "-", "b", ".", "c", "c">> }

SomeReserved == {<<"a", "b", "a", "b", "_", "c">>, <<"w", "1", "a", "_", "c", "c">>}
=============================================================================
