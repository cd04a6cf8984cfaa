SPECIFICATION Spec
CONSTANTS
    Headings <- MCHeadings
    Bodies <- MCBodies
    Key <- MCKey
    Words <- MCWords
    Trees <- TwoSections
    MaxVersions = 2
INVARIANT SharedWordsAccepted
