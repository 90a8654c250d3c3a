------------------------------ MODULE MCAiRefresh ------------------------------
EXTENDS AiRefresh
===============================================================================
