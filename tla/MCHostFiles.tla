---------------------------- MODULE MCHostFiles -----------------------------
(* A small instance of HostFiles, see host_files.cfg.                      *)
EXTENDS HostFiles

\* The second address starts with the first one.
Addresses == {"a@x.co", "a@x.com"}
Prefixes == {<<a, a>> : a \in Addresses} \cup {<<"a@x.com", "a@x.co">>}

\* Two CNAME records of one name.
Conflicts == {{"r2", "r3"}}

=============================================================================
