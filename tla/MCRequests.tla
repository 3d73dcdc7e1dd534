------------------------------ MODULE MCRequests ------------------------------
\* Two requests and one permit: one request can hold the permit while the other
\* is refused, or take it after the other.  The kinds are chosen by the clients.
EXTENDS RequestLifecycle

\* nothing wrong; a bad token, alone, behind a check that comes before it and
\* before one that comes after it; a flaw that is found last
MCFlawSets == { {}, { "token" }, { "model", "token" }, { "token", "project" }, { "media" } }
==============================================================================
