------------------------------ MODULE MCSuggestion ------------------------------
EXTENDS Suggestion
===============================================================================
