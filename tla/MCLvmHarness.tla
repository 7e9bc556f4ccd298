---------------------------- MODULE MCLvmHarness ----------------------------
\* The LVM harness with two rounds over a two-operation log.
EXTENDS LvmHarness

\* check_test's results: a data error, success, and an error of the test.
MCCheckResults == {-1, 0, 1}
=============================================================================
