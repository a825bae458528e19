---------------------------- MODULE MCCliInput ----------------------------
EXTENDS CliInput

\* Two commands; one is the beginning of the other.
Commands == {<<"a">>, <<"a", "a">>}
=============================================================================
