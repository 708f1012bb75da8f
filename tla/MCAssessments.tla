--------------------------- MODULE MCAssessments ---------------------------
EXTENDS GradeReviews
=============================================================================
