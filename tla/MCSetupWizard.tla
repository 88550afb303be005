--------------------------- MODULE MCSetupWizard ----------------------------
EXTENDS SetupWizard

\* A tag that is a table, one whose table is not its base, one without a table.
MCLocales == {Tag("en", "en", FALSE), Tag("zh-SG", "zh", FALSE), Tag("eo", "eo", FALSE)}
=============================================================================
