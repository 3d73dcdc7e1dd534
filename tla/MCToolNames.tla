------------------------------ MODULE MCToolNames ------------------------------
\* Names of up to six characters for a limit of five: names that are equal once
\* they are cut or made safe, names that look numbered, a namespace whose
\* functions look like another function, a name that takes the search tool's.
EXTENDS ToolNames

MCSafe == { "a", "b", "_", "t", "s" } \cup Range(Digits)
MCSearchName == << "t", "_", "s" >>

Tool(type, name, children) == [ type |-> type, name |-> name, children |-> children ]

MCTools == {
    Tool("function", << "a" >>, << >>),
    Tool("custom", << "a" >>, << >>),
    Tool("function", << "a", "_", "2" >>, << >>),
    Tool("function", << "a", ".", "2" >>, << >>),
    Tool("function", << "a", "_", "_", "b", "a", "a" >>, << >>),
    Tool("custom", << "a", ".", "_", "b", "a", "b" >>, << >>),
    Tool("namespace", << "a" >>, << << "b", "a" >>, << >>, << "b", "a", "b" >> >>),
    Tool("namespace", << "a" >>, << << "b" >>, << "a" >> >>),
    Tool("tool_search", << >>, << >>),
    Tool("function", << "t", ".", "s" >>, << >>),
    Tool("function", << >>, << >>) }
==============================================================================
