--------------------------- MODULE MCBrowserClose ---------------------------
\* An instance of BrowserClose for TLC: two tabs, with the periods of the code in
\* ticks of two seconds.
EXTENDS BrowserClose, TLC

CONSTANTS p1, p2

MCPage == {p1, p2}
=============================================================================
