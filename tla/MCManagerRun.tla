---------------------------- MODULE MCManagerRun ----------------------------
EXTENDS ManagerRun

\* Memory holds the lessons of an earlier study, as the seed plans cite.
OneLesson == {0}
=============================================================================
