----------------------------- MODULE MCPassword -----------------------------
\* Instances of PasswordBuffer for TLC.
EXTENDS PasswordBuffer

\* The last character of one byte, and the first and the last of two, three
\* and four.
Limits == {127, 128, 2047, 2048, 65535, 65536, 1114111}

=============================================================================
