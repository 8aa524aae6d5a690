------------------------------ MODULE MCLicense ------------------------------
EXTENDS License

\* Two servers of one device, a command line, and a key for two devices.
CONSTANTS s1, s2, c
=============================================================================
